---- MODULE Spec2Model ----
(***************************************************************************)
(* Smart-swap contract (contracts/smart-swap): the lifecycle of a swap     *)
(* condition, the price oracle client, the DEX integration and the         *)
(* contract entry points of lib.rs.                                        *)
(*                                                                         *)
(* Numbers.  The contract computes on u64.  Clock values, counters, ids    *)
(* and basis points are small and are carried as integers.  Amounts,       *)
(* prices, reserves and price timestamps are "wide": they are carried as   *)
(* little-endian sequences of 15-bit limbs without leading zero limbs      *)
(* (<<>> is 0), so that products beyond 2^64 are computed exactly and the  *)
(* u64 result (wrapped, with an overflow flag) is what the code computes.  *)
(* An overflowing u64 operation aborts the call in a build with overflow   *)
(* checks and wraps modulo 2^64 in a build without: the build is the       *)
(* variable overflow_checks, chosen once in Init.                          *)
(***************************************************************************)
EXTENDS Integers, Sequences, FiniteSets, TLC

----------------------------------------------------------------------------
(* Wide naturals *)

Limb == 2^15

Min(a, b) == IF a <= b THEN a ELSE b

TailE(a) == IF a = <<>> THEN <<>> ELSE Tail(a)

HeadZ(a) == IF a = <<>> THEN 0 ELSE Head(a)

RECURSIVE Norm(_)
Norm(a) ==
    IF a = <<>> THEN <<>>
    ELSE IF a[Len(a)] = 0 THEN Norm(SubSeq(a, 1, Len(a) - 1))
    ELSE a

RECURSIVE W(_)
W(n) == IF n = 0 THEN <<>> ELSE <<n % Limb>> \o W(n \div Limb)

RECURSIVE AddC(_, _, _)
AddC(a, b, c) ==
    IF a = <<>> /\ b = <<>> THEN W(c)
    ELSE LET s == HeadZ(a) + HeadZ(b) + c
         IN  <<s % Limb>> \o AddC(TailE(a), TailE(b), s \div Limb)

WAdd(a, b) == AddC(a, b, 0)

RECURSIVE MulSmallC(_, _, _)
MulSmallC(a, k, c) ==
    IF a = <<>> THEN W(c)
    ELSE LET p == Head(a) * k + c
         IN  <<p % Limb>> \o MulSmallC(Tail(a), k, p \div Limb)

MulSmall(a, k) == Norm(MulSmallC(a, k, 0))

RECURSIVE WMul(_, _)
WMul(a, b) ==
    IF a = <<>> \/ b = <<>> THEN <<>>
    ELSE LET rest == WMul(a, Tail(b))
         IN  WAdd(MulSmall(a, Head(b)), IF rest = <<>> THEN <<>> ELSE <<0>> \o rest)

RECURSIVE CmpFrom(_, _, _)
CmpFrom(a, b, i) ==
    IF i = 0 THEN 0
    ELSE IF a[i] < b[i] THEN -1
    ELSE IF a[i] > b[i] THEN 1
    ELSE CmpFrom(a, b, i - 1)

WCmp(a, b) ==
    IF Len(a) < Len(b) THEN -1
    ELSE IF Len(a) > Len(b) THEN 1
    ELSE CmpFrom(a, b, Len(a))

WLt(a, b) == WCmp(a, b) < 0
WLe(a, b) == WCmp(a, b) <= 0
WGt(a, b) == WCmp(a, b) > 0
WGe(a, b) == WCmp(a, b) >= 0

RECURSIVE SubB(_, _, _)
SubB(a, b, br) ==
    IF a = <<>> THEN <<>>
    ELSE LET y == HeadZ(b) + br
         IN  IF Head(a) >= y
             THEN <<Head(a) - y>> \o SubB(Tail(a), TailE(b), 0)
             ELSE <<Head(a) + Limb - y>> \o SubB(Tail(a), TailE(b), 1)

\* a - b for a >= b
WSub(a, b) == Norm(SubB(a, b, 0))

\* the largest d in lo..hi with b * d <= rem
RECURSIVE QDigit(_, _, _, _)
QDigit(rem, b, lo, hi) ==
    IF lo = hi THEN lo
    ELSE LET mid == (lo + hi + 1) \div 2
         IN  IF WLe(MulSmall(b, mid), rem)
             THEN QDigit(rem, b, mid, hi)
             ELSE QDigit(rem, b, lo, mid - 1)

\* the limbs of rem that stand over the leading limb of b, as one number
\* (rem < b * Limb, so rem has at most one limb more than b)
Leading(rem, b) ==
    IF Len(rem) > Len(b) THEN rem[Len(b) + 1] * Limb + rem[Len(b)] ELSE rem[Len(b)]

\* the quotient digit of rem by b, b # 0 and rem < b * Limb: the leading limbs
\* bound it from both sides, and the search settles it between the bounds
Digit(rem, b) ==
    IF Len(rem) < Len(b) THEN 0
    ELSE QDigit(rem, b, Leading(rem, b) \div (b[Len(b)] + 1),
                Min(Limb - 1, Leading(rem, b) \div b[Len(b)]))

\* quotient and remainder of a by b, b # 0: long division, one limb at a time
RECURSIVE WDivMod(_, _)
WDivMod(a, b) ==
    IF a = <<>> THEN [q |-> <<>>, r |-> <<>>]
    ELSE LET hi  == WDivMod(Tail(a), b)
             rem == Norm(<<Head(a)>> \o hi.r)
             d   == Digit(rem, b)
         IN  IF d = 0 THEN [q |-> Norm(<<0>> \o hi.q), r |-> rem]
             ELSE [q |-> <<d>> \o hi.q, r |-> WSub(rem, MulSmall(b, d))]

\* a \div b, b # 0.  Both are scaled by the same factor first, which leaves
\* the quotient as it is and makes the leading limb of the divisor large, so
\* that the bounds on each digit are close
WDiv(a, b) ==
    WDivMod(MulSmall(a, Limb \div (b[Len(b)] + 1)),
            MulSmall(b, Limb \div (b[Len(b)] + 1))).q

\* hi * 10^9 + lo: a decimal constant of the source written in two halves
Dec(hi, lo) == WAdd(WMul(W(hi), W(1000000000)), W(lo))

----------------------------------------------------------------------------
(* u64 and u32 arithmetic of the build *)

Two64 == <<0, 0, 0, 0, 16>>

\* the low 64 bits: four limbs and the low 4 bits of the fifth
Wrap64(a) ==
    Norm([i \in 1..Min(Len(a), 5) |-> IF i = 5 THEN a[i] % 16 ELSE a[i]])

Fits64(a) == Wrap64(a) = a

\* the low 32 bits (a cast "as u32"): two limbs and the low 2 bits of the third
Wrap32(a) ==
    Norm([i \in 1..Min(Len(a), 3) |-> IF i = 3 THEN a[i] % 4 ELSE a[i]])

\* u64 operations: v is the wrapped result, o tells that it overflowed
Mul64(a, b) == LET p == WMul(a, b) IN [v |-> Wrap64(p), o |-> ~Fits64(p)]

Add64(a, b) == LET s == WAdd(a, b) IN [v |-> Wrap64(s), o |-> ~Fits64(s)]

Sub64(a, b) ==
    IF WGe(a, b) THEN [v |-> WSub(a, b), o |-> FALSE]
    ELSE [v |-> WSub(WAdd(a, Two64), b), o |-> TRUE]

\* u64::saturating_sub
SatSub64(a, b) == IF WGe(a, b) THEN WSub(a, b) ELSE <<>>

----------------------------------------------------------------------------
(* price_oracle.rs *)

NoSymbol == "none"

NoPriceData ==
    [asset_symbol |-> NoSymbol, price |-> <<>>, timestamp |-> <<>>,
     confidence |-> 0, source_count |-> 0]

\* OracleConfigManager::create_default_config
DefaultOracleConfig ==
    [max_price_age |-> 300, fallback_enabled |-> TRUE, min_confidence |-> 70]

\* OracleConfigManager::validate_config: "ok" or the error
OracleValidateConfig(cfg) ==
    IF cfg.max_price_age = 0 \/ cfg.max_price_age > 3600 THEN "invalid_max_price_age"
    ELSE IF cfg.min_confidence > 100 THEN "invalid_min_confidence"
    ELSE "ok"

\* the simulated oracle response; o: no u64 operation overflows here
query_oracle_price(asset_symbol, current_time) ==
    LET known == asset_symbol \in {"XLM", "USDC", "BTC", "ETH"}
        mock_price ==
            CASE asset_symbol = "XLM"  -> W(120000)
              [] asset_symbol = "USDC" -> W(1000000)
              [] asset_symbol = "BTC"  -> Dec(45, 0)
              [] asset_symbol = "ETH"  -> Dec(3, 0)
              [] OTHER -> <<>>
    IN  IF ~known
        THEN [ok |-> FALSE, error |-> "unsupported_asset", data |-> NoPriceData, o |-> FALSE]
        ELSE [ok |-> TRUE, error |-> NoSymbol, o |-> FALSE,
              data |-> [asset_symbol |-> asset_symbol, price |-> mock_price,
                        timestamp |-> W(current_time), confidence |-> 85,
                        source_count |-> 5]]

\* the historical price: its timestamp is current_time - 300 in u64
query_historical_price(asset_symbol, current_time) ==
    LET known == asset_symbol \in {"XLM", "USDC", "BTC", "ETH"}
        historical_price ==
            CASE asset_symbol = "XLM"  -> W(118000)
              [] asset_symbol = "USDC" -> W(999500)
              [] asset_symbol = "BTC"  -> Dec(44, 500000000)
              [] asset_symbol = "ETH"  -> Dec(2, 980000000)
              [] OTHER -> <<>>
        ts == Sub64(W(current_time), W(300))
    IN  IF ~known
        THEN [ok |-> FALSE, error |-> "no_historical_data", data |-> NoPriceData, o |-> FALSE]
        ELSE [ok |-> TRUE, error |-> NoSymbol, o |-> ts.o,
              data |-> [asset_symbol |-> asset_symbol, price |-> historical_price,
                        timestamp |-> ts.v, confidence |-> 70, source_count |-> 3]]

get_fallback_price(asset_symbol, current_time) ==
    LET Historical(h) ==
            IF h.ok
            THEN [success |-> TRUE, price_data |-> h.data, error_message |-> NoSymbol,
                  o |-> h.o]
            ELSE [success |-> FALSE, price_data |-> NoPriceData,
                  error_message |-> h.error, o |-> h.o]
    IN  Historical(query_historical_price(asset_symbol, current_time))

is_price_data_valid(price_data, oracle_config, current_time) ==
    IF WGt(SatSub64(W(current_time), price_data.timestamp), W(oracle_config.max_price_age))
    THEN FALSE
    ELSE IF price_data.confidence < oracle_config.min_confidence THEN FALSE
    ELSE IF price_data.price = <<>> THEN FALSE
    ELSE IF price_data.source_count < 2 THEN FALSE
    ELSE TRUE

\* get_price without the quality gate: the primary price whenever the query succeeds
GetPriceUngated(oracle_config, asset_symbol, current_time) ==
    LET Primary(q, fallback) ==
            IF q.ok
            THEN [success |-> TRUE, price_data |-> q.data,
                  error_message |-> NoSymbol, o |-> FALSE]
            ELSE IF oracle_config.fallback_enabled
                 THEN fallback
                 ELSE [success |-> FALSE, price_data |-> NoPriceData,
                       error_message |-> q.error, o |-> FALSE]
    IN  Primary(query_oracle_price(asset_symbol, current_time),
                get_fallback_price(asset_symbol, current_time))

\* PriceQueryResult; o: a u64 operation overflowed on the way
get_price(oracle_config, asset_symbol, current_time) ==
    LET Primary(q, fallback) ==
            IF q.ok
            THEN IF is_price_data_valid(q.data, oracle_config, current_time)
                 THEN [success |-> TRUE, price_data |-> q.data,
                       error_message |-> NoSymbol, o |-> FALSE]
                 ELSE IF oracle_config.fallback_enabled
                      THEN fallback
                      ELSE [success |-> FALSE, price_data |-> NoPriceData,
                            error_message |-> "invalid_price_data", o |-> FALSE]
            ELSE IF oracle_config.fallback_enabled
                 THEN fallback
                 ELSE [success |-> FALSE, price_data |-> NoPriceData,
                       error_message |-> q.error, o |-> FALSE]
    IN  Primary(query_oracle_price(asset_symbol, current_time),
                get_fallback_price(asset_symbol, current_time))

\* "ok" or the error
validate_price_for_swap(price_data, oracle_config, current_time) ==
    IF WGt(SatSub64(W(current_time), price_data.timestamp), W(oracle_config.max_price_age))
    THEN "price_too_old"
    ELSE IF price_data.confidence < oracle_config.min_confidence
    THEN "insufficient_confidence"
    ELSE IF price_data.price = <<>> THEN "zero_price"
    ELSE "ok"

----------------------------------------------------------------------------
(* swap_condition.rs *)

MAX_SLIPPAGE_BASIS_POINTS == 5000
MIN_SLIPPAGE_BASIS_POINTS == 1
MAX_SWAP_AMOUNT == Dec(10000, 0)
MIN_SWAP_AMOUNT == W(10000000)
MAX_CONDITION_LIFETIME == 86400 * 365
MIN_CONDITION_LIFETIME == 60
MAX_PERCENTAGE_CHANGE == 10000
MIN_PERCENTAGE_CHANGE == 1

TerminalStatus == {"Executed", "Cancelled", "Failed", "Expired"}

\* min_amount_out of a new condition; dz: division by a zero reference price
calculate_min_amount_out(amount_in, reference_price, max_slippage) ==
    LET dz == reference_price = <<>>
        Result(prod, scaled) ==
            [v |-> WDiv(scaled.v, W(10000)), o |-> prod.o \/ scaled.o, dz |-> dz]
        Base(prod, base_amount_out) ==
            Result(prod, Mul64(base_amount_out, W(10000 - max_slippage)))
        Product(prod) ==
            Base(prod, IF dz THEN <<>> ELSE WDiv(prod.v, reference_price))
    IN  Product(Mul64(amount_in, reference_price))

\* SwapCondition::new, with the min_amount_out that calculate_min_amount_out gave
NewSwapCondition(id, owner, request, reference_price, min_amount_out, current_time) ==
    [id |-> id,
     owner |-> owner,
     source_asset |-> request.source_asset,
     destination_asset |-> request.destination_asset,
     condition_type |-> request.condition_type,
     amount_to_swap |-> request.amount_to_swap,
     min_amount_out |-> min_amount_out,
     max_slippage |-> request.max_slippage,
     reference_price |-> reference_price,
     created_at |-> current_time,
     expires_at |-> request.expires_at,
     status |-> "Active",
     last_check |-> current_time,
     execution_count |-> 0,
     max_executions |-> request.max_executions]

\* is_valid with the execution limits compared by > where the code has >=
IsValidOffByOne(c, current_time) ==
    IF current_time > c.expires_at THEN "condition_expired"
    ELSE IF c.max_executions = 1 /\ c.execution_count > 1 THEN "already_executed"
    ELSE IF c.max_executions > 0 /\ c.execution_count > c.max_executions
    THEN "execution_limit_reached"
    ELSE CASE c.status = "Cancelled" -> "condition_cancelled"
           [] c.status = "Failed"    -> "condition_failed"
           [] c.status = "Expired"   -> "condition_expired"
           [] OTHER -> "ok"

\* is_valid without the execution limits: the expiry and the status match only
IsValidStatusOnly(c, current_time) ==
    IF current_time > c.expires_at THEN "condition_expired"
    ELSE CASE c.status = "Cancelled" -> "condition_cancelled"
           [] c.status = "Failed"    -> "condition_failed"
           [] c.status = "Expired"   -> "condition_expired"
           [] OTHER -> "ok"

\* is_valid without its look at the status: only the clock and the limits
IsValidIgnoresStatus(c, current_time) ==
    IF current_time > c.expires_at THEN "condition_expired"
    ELSE IF c.max_executions = 1 /\ c.execution_count >= 1 THEN "already_executed"
    ELSE IF c.max_executions > 0 /\ c.execution_count >= c.max_executions
    THEN "execution_limit_reached"
    ELSE "ok"

\* is_valid without its test of the clock: only the limits and the status
IsValidIgnoresClock(c, current_time) ==
    IF c.max_executions = 1 /\ c.execution_count >= 1 THEN "already_executed"
    ELSE IF c.max_executions > 0 /\ c.execution_count >= c.max_executions
    THEN "execution_limit_reached"
    ELSE CASE c.status = "Cancelled" -> "condition_cancelled"
           [] c.status = "Failed"    -> "condition_failed"
           [] c.status = "Expired"   -> "condition_expired"
           [] OTHER -> "ok"

\* SwapCondition::is_valid: "ok" or the error's message
is_valid(c, current_time) ==
    IF current_time > c.expires_at THEN "condition_expired"
    ELSE IF c.max_executions = 1 /\ c.execution_count >= 1 THEN "already_executed"
    ELSE IF c.max_executions > 0 /\ c.execution_count >= c.max_executions
    THEN "execution_limit_reached"
    ELSE CASE c.status = "Cancelled" -> "condition_cancelled"
           [] c.status = "Failed"    -> "condition_failed"
           [] c.status = "Expired"   -> "condition_expired"
           [] OTHER -> "ok"

\* should_execute with the tolerance taken from the current price
ShouldExecuteToleranceOfPrice(c, current_price) ==
    LET ct == c.condition_type
        Increase(m, s) == [v |-> WGe(current_price, s.v), o |-> m.o \/ s.o]
        IncreaseBy(m) ==
            Increase(m, Add64(c.reference_price, WDiv(m.v, W(100))))
        DecreaseBy(m) ==
            [v |-> WLe(current_price,
                       SatSub64(c.reference_price, WDiv(m.v, W(100)))),
             o |-> m.o]
        Target(lower, upper) ==
            [v |-> lower /\ WLe(current_price, upper.v), o |-> lower /\ upper.o]
        Within(tolerance) ==
            Target(WGe(current_price, SatSub64(ct.arg, tolerance)),
                   Add64(ct.arg, tolerance))
    IN  CASE ct.kind = "PercentageIncrease" ->
               IncreaseBy(Mul64(c.reference_price, W(ct.arg)))
          [] ct.kind = "PercentageDecrease" ->
               DecreaseBy(Mul64(c.reference_price, W(ct.arg)))
          [] ct.kind = "TargetPrice" -> Within(WDiv(current_price, W(1000)))
          [] ct.kind = "PriceAbove" -> [v |-> WGt(current_price, ct.arg), o |-> FALSE]
          [] ct.kind = "PriceBelow" -> [v |-> WLt(current_price, ct.arg), o |-> FALSE]

\* should_execute with the thresholds of PriceAbove and PriceBelow included
ShouldExecuteAtThreshold(c, current_price) ==
    LET ct == c.condition_type
        Increase(m, s) == [v |-> WGe(current_price, s.v), o |-> m.o \/ s.o]
        IncreaseBy(m) ==
            Increase(m, Add64(c.reference_price, WDiv(m.v, W(100))))
        DecreaseBy(m) ==
            [v |-> WLe(current_price,
                       SatSub64(c.reference_price, WDiv(m.v, W(100)))),
             o |-> m.o]
        Target(lower, upper) ==
            [v |-> lower /\ WLe(current_price, upper.v), o |-> lower /\ upper.o]
        Within(tolerance) ==
            Target(WGe(current_price, SatSub64(ct.arg, tolerance)),
                   Add64(ct.arg, tolerance))
    IN  CASE ct.kind = "PercentageIncrease" ->
               IncreaseBy(Mul64(c.reference_price, W(ct.arg)))
          [] ct.kind = "PercentageDecrease" ->
               DecreaseBy(Mul64(c.reference_price, W(ct.arg)))
          [] ct.kind = "TargetPrice" -> Within(WDiv(ct.arg, W(1000)))
          [] ct.kind = "PriceAbove" -> [v |-> WGe(current_price, ct.arg), o |-> FALSE]
          [] ct.kind = "PriceBelow" -> [v |-> WLe(current_price, ct.arg), o |-> FALSE]

\* should_execute dividing the reference price by 100 before it multiplies
ShouldExecuteDivideFirst(c, current_price) ==
    LET ct == c.condition_type
        Increase(m, s) == [v |-> WGe(current_price, s.v), o |-> m.o \/ s.o]
        IncreaseBy(m) == Increase(m, Add64(c.reference_price, m.v))
        DecreaseBy(m) ==
            [v |-> WLe(current_price, SatSub64(c.reference_price, m.v)),
             o |-> m.o]
        Target(lower, upper) ==
            [v |-> lower /\ WLe(current_price, upper.v), o |-> lower /\ upper.o]
        Within(tolerance) ==
            Target(WGe(current_price, SatSub64(ct.arg, tolerance)),
                   Add64(ct.arg, tolerance))
    IN  CASE ct.kind = "PercentageIncrease" ->
               IncreaseBy(Mul64(WDiv(c.reference_price, W(100)), W(ct.arg)))
          [] ct.kind = "PercentageDecrease" ->
               DecreaseBy(Mul64(WDiv(c.reference_price, W(100)), W(ct.arg)))
          [] ct.kind = "TargetPrice" -> Within(WDiv(ct.arg, W(1000)))
          [] ct.kind = "PriceAbove" -> [v |-> WGt(current_price, ct.arg), o |-> FALSE]
          [] ct.kind = "PriceBelow" -> [v |-> WLt(current_price, ct.arg), o |-> FALSE]

\* should_execute with the lower end of the target band exclusive
ShouldExecuteOpenBand(c, current_price) ==
    LET ct == c.condition_type
        Increase(m, s) == [v |-> WGe(current_price, s.v), o |-> m.o \/ s.o]
        IncreaseBy(m) ==
            Increase(m, Add64(c.reference_price, WDiv(m.v, W(100))))
        DecreaseBy(m) ==
            [v |-> WLe(current_price,
                       SatSub64(c.reference_price, WDiv(m.v, W(100)))),
             o |-> m.o]
        Target(lower, upper) ==
            [v |-> lower /\ WLe(current_price, upper.v), o |-> lower /\ upper.o]
        Within(tolerance) ==
            Target(WGt(current_price, SatSub64(ct.arg, tolerance)),
                   Add64(ct.arg, tolerance))
    IN  CASE ct.kind = "PercentageIncrease" ->
               IncreaseBy(Mul64(c.reference_price, W(ct.arg)))
          [] ct.kind = "PercentageDecrease" ->
               DecreaseBy(Mul64(c.reference_price, W(ct.arg)))
          [] ct.kind = "TargetPrice" -> Within(WDiv(ct.arg, W(1000)))
          [] ct.kind = "PriceAbove" -> [v |-> WGt(current_price, ct.arg), o |-> FALSE]
          [] ct.kind = "PriceBelow" -> [v |-> WLt(current_price, ct.arg), o |-> FALSE]

\* SwapCondition::should_execute: v the answer, o an overflow on the way
should_execute(c, current_price) ==
    LET ct == c.condition_type
        Increase(m, s) == [v |-> WGe(current_price, s.v), o |-> m.o \/ s.o]
        IncreaseBy(m) ==
            Increase(m, Add64(c.reference_price, WDiv(m.v, W(100))))
        DecreaseBy(m) ==
            [v |-> WLe(current_price,
                       SatSub64(c.reference_price, WDiv(m.v, W(100)))),
             o |-> m.o]
        Target(lower, upper) ==
            [v |-> lower /\ WLe(current_price, upper.v), o |-> lower /\ upper.o]
        Within(tolerance) ==
            Target(WGe(current_price, SatSub64(ct.arg, tolerance)),
                   Add64(ct.arg, tolerance))
    IN  CASE ct.kind = "PercentageIncrease" ->
               IncreaseBy(Mul64(c.reference_price, W(ct.arg)))
          [] ct.kind = "PercentageDecrease" ->
               DecreaseBy(Mul64(c.reference_price, W(ct.arg)))
          [] ct.kind = "TargetPrice" -> Within(WDiv(ct.arg, W(1000)))
          [] ct.kind = "PriceAbove" -> [v |-> WGt(current_price, ct.arg), o |-> FALSE]
          [] ct.kind = "PriceBelow" -> [v |-> WLt(current_price, ct.arg), o |-> FALSE]

\* update_execution without its max_executions > 0 test: a limit of 0 is reached
\* by the first execution
UpdateExecutionLimitZero(c, current_time) ==
    LET n == c.execution_count + 1
    IN  [c EXCEPT !.execution_count = n,
                  !.last_check = current_time,
                  !.status = IF n >= c.max_executions THEN "Executed" ELSE @]

\* SwapCondition::update_execution
update_execution(c, current_time) ==
    LET n == c.execution_count + 1
    IN  [c EXCEPT !.execution_count = n,
                  !.last_check = current_time,
                  !.status = IF c.max_executions > 0 /\ n >= c.max_executions
                             THEN "Executed" ELSE @]

cancel(c) == [c EXCEPT !.status = "Cancelled"]

mark_as_failed(c) == [c EXCEPT !.status = "Failed"]

\* mark_as_expired with >= where the code has >: it expires at the deadline
MarkExpiredAtDeadline(c, current_time) ==
    IF current_time >= c.expires_at THEN [c EXCEPT !.status = "Expired"] ELSE c

mark_as_expired(c, current_time) ==
    IF current_time > c.expires_at THEN [c EXCEPT !.status = "Expired"] ELSE c

validate_condition_type(request) ==
    LET ct == request.condition_type
    IN  CASE ct.kind \in {"PercentageIncrease", "PercentageDecrease"} ->
               IF ct.arg < MIN_PERCENTAGE_CHANGE \/ ct.arg > MAX_PERCENTAGE_CHANGE
               THEN "invalid_percentage" ELSE "ok"
          [] ct.kind = "TargetPrice" ->
               IF ct.arg = <<>> THEN "invalid_target_price" ELSE "ok"
          [] ct.kind \in {"PriceAbove", "PriceBelow"} ->
               IF ct.arg = <<>> THEN "invalid_price_threshold" ELSE "ok"

\* validate with a wrapping subtraction: an expiry in the past gives a lifetime of
\* at least 2^64 - current_time, above every limit
ValidateWrappingLifetime(request, current_time) ==
    LET lifetime == IF request.expires_at >= current_time
                    THEN request.expires_at - current_time
                    ELSE MAX_CONDITION_LIFETIME + 1
    IN  IF WLt(request.amount_to_swap, MIN_SWAP_AMOUNT) THEN "amount_too_small"
        ELSE IF WGt(request.amount_to_swap, MAX_SWAP_AMOUNT) THEN "amount_too_large"
        ELSE IF request.max_slippage < MIN_SLIPPAGE_BASIS_POINTS THEN "slippage_too_low"
        ELSE IF request.max_slippage > MAX_SLIPPAGE_BASIS_POINTS THEN "slippage_too_high"
        ELSE IF lifetime < MIN_CONDITION_LIFETIME THEN "lifetime_too_short"
        ELSE IF lifetime > MAX_CONDITION_LIFETIME THEN "lifetime_too_long"
        ELSE IF request.source_asset = request.destination_asset THEN "same_assets"
        ELSE validate_condition_type(request)

\* validate with the assets compared before the amount
ValidateAssetsFirst(request, current_time) ==
    LET lifetime == IF request.expires_at >= current_time
                    THEN request.expires_at - current_time ELSE 0
    IN  IF request.source_asset = request.destination_asset THEN "same_assets"
        ELSE IF WLt(request.amount_to_swap, MIN_SWAP_AMOUNT) THEN "amount_too_small"
        ELSE IF WGt(request.amount_to_swap, MAX_SWAP_AMOUNT) THEN "amount_too_large"
        ELSE IF request.max_slippage < MIN_SLIPPAGE_BASIS_POINTS THEN "slippage_too_low"
        ELSE IF request.max_slippage > MAX_SLIPPAGE_BASIS_POINTS THEN "slippage_too_high"
        ELSE IF lifetime < MIN_CONDITION_LIFETIME THEN "lifetime_too_short"
        ELSE IF lifetime > MAX_CONDITION_LIFETIME THEN "lifetime_too_long"
        ELSE validate_condition_type(request)

\* CreateSwapRequest::validate: "ok" or the error's message
validate(request, current_time) ==
    LET lifetime == IF request.expires_at >= current_time
                    THEN request.expires_at - current_time ELSE 0
    IN  IF WLt(request.amount_to_swap, MIN_SWAP_AMOUNT) THEN "amount_too_small"
        ELSE IF WGt(request.amount_to_swap, MAX_SWAP_AMOUNT) THEN "amount_too_large"
        ELSE IF request.max_slippage < MIN_SLIPPAGE_BASIS_POINTS THEN "slippage_too_low"
        ELSE IF request.max_slippage > MAX_SLIPPAGE_BASIS_POINTS THEN "slippage_too_high"
        ELSE IF lifetime < MIN_CONDITION_LIFETIME THEN "lifetime_too_short"
        ELSE IF lifetime > MAX_CONDITION_LIFETIME THEN "lifetime_too_long"
        ELSE IF request.source_asset = request.destination_asset THEN "same_assets"
        ELSE validate_condition_type(request)

\* SwapExecution::new; the slippage is computed against amount_in
NewSwapExecution(condition_id, execution_price, amount_in, amount_out, gas_used, tx_hash, current_time) ==
    LET lossy == amount_in # <<>> /\ WLt(amount_out, amount_in)
        Record(m) ==
            [rec |-> [condition_id |-> condition_id,
                      executed_at |-> current_time,
                      execution_price |-> execution_price,
                      amount_in |-> amount_in,
                      amount_out |-> amount_out,
                      actual_slippage |-> IF lossy THEN WDiv(m.v, amount_in) ELSE <<>>,
                      gas_used |-> gas_used,
                      tx_hash |-> tx_hash],
             o |-> lossy /\ m.o]
    IN  Record(Mul64(SatSub64(amount_in, amount_out), W(10000)))

----------------------------------------------------------------------------
(* dex_integration.rs *)

\* DexConfigManager::create_default_config
DefaultDexConfig ==
    [fee_tier |-> 30, min_liquidity |-> Dec(1000, 0), max_slippage_tolerance |-> 1000]

\* the reserve pairs of the simulated pools
XLM_USDC_RESERVES == <<Dec(100000, 0), Dec(1200, 0)>>
BTC_XLM_RESERVES == <<Dec(1, 0), Dec(375000, 0)>>
ETH_XLM_RESERVES == <<Dec(10, 0), Dec(250000, 0)>>
USDC_BTC_RESERVES == <<Dec(4500, 0), Dec(1, 0)>>
DEFAULT_RESERVES == <<Dec(10000, 0), Dec(10000, 0)>>

get_simulated_reserves(token_a, token_b) ==
    CASE <<token_a, token_b>> \in {<<"XLM", "USDC">>, <<"USDC", "XLM">>} ->
           XLM_USDC_RESERVES
      [] <<token_a, token_b>> \in {<<"BTC", "XLM">>, <<"XLM", "BTC">>} ->
           BTC_XLM_RESERVES
      [] <<token_a, token_b>> \in {<<"ETH", "XLM">>, <<"XLM", "ETH">>} ->
           ETH_XLM_RESERVES
      [] <<token_a, token_b>> \in {<<"USDC", "BTC">>, <<"BTC", "USDC">>} ->
           USDC_BTC_RESERVES
      [] OTHER -> DEFAULT_RESERVES

\* PoolInfo; o: reserve_a + reserve_b overflowed
get_pool_info(dex_config, token_a, token_b, current_time) ==
    LET Info(r, total) ==
            [token_a |-> token_a, token_b |-> token_b,
             reserve_a |-> r[1], reserve_b |-> r[2],
             total_supply |-> total.v,
             fee_rate |-> dex_config.fee_tier,
             last_updated |-> current_time,
             o |-> total.o]
        Reserves(r) == Info(r, Add64(r[1], r[2]))
    IN  Reserves(get_simulated_reserves(token_a, token_b))

\* check_liquidity without the safety margin: the reserve need only cover amount_in
CheckLiquidityNoMargin(dex_config, token_in, token_out, amount_in, current_time) ==
    LET Enough(pool_info, required_liquidity, total_liquidity) ==
            LET available_liquidity ==
                    IF pool_info.token_a = token_in THEN pool_info.reserve_a
                    ELSE pool_info.reserve_b
            IN  IF WLt(available_liquidity, required_liquidity.v)
                THEN [v |-> FALSE, o |-> pool_info.o \/ required_liquidity.o]
                ELSE [v |-> WGe(total_liquidity.v, dex_config.min_liquidity),
                      o |-> pool_info.o \/ required_liquidity.o \/ total_liquidity.o]
        Pool(pool_info) ==
            Enough(pool_info, Mul64(amount_in, W(1)),
                   Add64(pool_info.reserve_a, pool_info.reserve_b))
    IN  Pool(get_pool_info(dex_config, token_in, token_out, current_time))

\* Ok(bool) as v; o: an overflow on the way
check_liquidity(dex_config, token_in, token_out, amount_in, current_time) ==
    LET Enough(pool_info, required_liquidity, total_liquidity) ==
            LET available_liquidity ==
                    IF pool_info.token_a = token_in THEN pool_info.reserve_a
                    ELSE pool_info.reserve_b
            IN  IF WLt(available_liquidity, required_liquidity.v)
                THEN [v |-> FALSE, o |-> pool_info.o \/ required_liquidity.o]
                ELSE [v |-> WGe(total_liquidity.v, dex_config.min_liquidity),
                      o |-> pool_info.o \/ required_liquidity.o \/ total_liquidity.o]
        Pool(pool_info) ==
            Enough(pool_info, Mul64(amount_in, W(2)),
                   Add64(pool_info.reserve_a, pool_info.reserve_b))
    IN  Pool(get_pool_info(dex_config, token_in, token_out, current_time))

validate_swap_params(token_in, token_out, amount_in) ==
    IF token_in = token_out THEN "identical_tokens"
    ELSE IF amount_in = <<>> THEN "zero_amount"
    ELSE IF WGt(amount_in, Dec(10000, 0)) THEN "amount_too_large"
    ELSE "ok"

validate_swap_execution(params, current_time) ==
    IF current_time > params.deadline THEN "deadline_exceeded"
    ELSE IF params.amount_out_min = <<>> THEN "invalid_min_output"
    ELSE validate_swap_params(params.token_in, params.token_out, params.amount_in)

\* pool_exists is constantly true, so the direct path is always the one found
find_optimal_path(token_in, token_out) ==
    [token_in |-> token_in, token_out |-> token_out, intermediate_tokens |-> <<>>]

estimate_token_complexity_gas(token_in, token_out) ==
    (IF token_in = "XLM" THEN 0 ELSE 10000) + (IF token_out = "XLM" THEN 0 ELSE 10000)

estimate_gas(token_in, token_out, swap_path) ==
    100000 + Len(swap_path.intermediate_tokens) * 50000
           + estimate_token_complexity_gas(token_in, token_out)

\* (amount_out, price_impact) or the error; o: an overflow on the way
calculate_swap_output(pool_info, amount_in, is_token_a_input) ==
    LET reserve_in  == IF is_token_a_input THEN pool_info.reserve_a ELSE pool_info.reserve_b
        reserve_out == IF is_token_a_input THEN pool_info.reserve_b ELSE pool_info.reserve_a
        Output(scaled, numerator, denominator, impact) ==
            IF reserve_in = <<>> \/ reserve_out = <<>>
            THEN [error |-> "insufficient_liquidity", amount_out |-> <<>>,
                  price_impact |-> <<>>, o |-> FALSE]
            ELSE IF denominator.v = <<>>
            THEN [error |-> "calculation_error", amount_out |-> <<>>,
                  price_impact |-> <<>>,
                  o |-> scaled.o \/ numerator.o \/ denominator.o]
            ELSE [error |-> "ok",
                  amount_out |-> WDiv(numerator.v, denominator.v),
                  price_impact |-> Wrap32(WDiv(impact.v, reserve_in)),
                  o |-> scaled.o \/ numerator.o \/ denominator.o \/ impact.o]
        WithFee(scaled, amount_in_with_fee) ==
            Output(scaled, Mul64(amount_in_with_fee, reserve_out),
                   Add64(reserve_in, amount_in_with_fee), Mul64(amount_in, W(10000)))
        Scaled(scaled) == WithFee(scaled, WDiv(scaled.v, W(10000)))
    IN  Scaled(Mul64(amount_in, W(10000 - pool_info.fee_rate)))

\* the direct swap of calculate_swap_quote (find_optimal_path gives no other path)
calculate_swap_quote(dex_config, swap_path, amount_in, current_time) ==
    LET Quote(pool_info, out) ==
            [error |-> out.error,
             amount_in |-> amount_in,
             amount_out |-> out.amount_out,
             price_impact |-> out.price_impact,
             estimated_gas |-> estimate_gas(swap_path.token_in, swap_path.token_out,
                                            swap_path),
             valid_until |-> current_time + 30,
             o |-> pool_info.o \/ out.o]
        Pool(pool_info) ==
            Quote(pool_info, calculate_swap_output(pool_info, amount_in, TRUE))
    IN  Pool(get_pool_info(dex_config, swap_path.token_in, swap_path.token_out,
                           current_time))

NoQuote(error) ==
    [error |-> error, amount_in |-> <<>>, amount_out |-> <<>>, price_impact |-> <<>>,
     estimated_gas |-> 0, valid_until |-> 0, o |-> FALSE]

get_swap_quote(dex_config, token_in, token_out, amount_in, current_time) ==
    LET v == validate_swap_params(token_in, token_out, amount_in)
    IN  IF v # "ok" THEN NoQuote(v)
        ELSE calculate_swap_quote(dex_config, find_optimal_path(token_in, token_out),
                                  amount_in, current_time)

FailedSwapResult(error, o, quoted) ==
    [success |-> FALSE, amount_in |-> <<>>, amount_out |-> <<>>,
     actual_price_impact |-> <<>>, gas_used |-> 0, transaction_hash |-> "",
     error_message |-> error, o |-> o, quoted |-> quoted, performed |-> FALSE]

\* the simulated swap: always succeeds with the quoted amount
perform_swap_execution(swap_params, quote) ==
    [success |-> TRUE,
     amount_in |-> swap_params.amount_in,
     amount_out |-> quote.amount_out,
     actual_price_impact |-> quote.price_impact,
     gas_used |-> quote.estimated_gas + (quote.estimated_gas \div 10),
     transaction_hash |-> "simulated_tx_hash",
     error_message |-> NoSymbol]

\* the slippage protection with its comparison turned round
SlippageReversed(quote, swap_params) == WGt(quote.amount_out, swap_params.amount_out_min)

\* the slippage protection of execute_swap
SlippageExceeded(quote, swap_params) == WLt(quote.amount_out, swap_params.amount_out_min)

\* StellarDexIntegration::execute_swap: the SwapResult, and for the record
\* o (an overflow on the way), quoted (the quote, when one was obtained) and
\* performed (perform_swap_execution was invoked)
dex_execute_swap(dex_config, swap_params, current_time) ==
    LET v == validate_swap_execution(swap_params, current_time)
        Quoted(quote) ==
            IF quote.error # "ok"
            THEN FailedSwapResult(quote.error, quote.o, NoQuote("none"))
            ELSE IF SlippageExceeded(quote, swap_params)
            THEN FailedSwapResult("slippage_exceeded", quote.o, quote)
            ELSE perform_swap_execution(swap_params, quote)
                   @@ [o |-> quote.o, quoted |-> quote, performed |-> TRUE]
    IN  IF v # "ok" THEN FailedSwapResult(v, FALSE, NoQuote("none"))
        ELSE Quoted(get_swap_quote(dex_config, swap_params.token_in,
                                   swap_params.token_out, swap_params.amount_in,
                                   current_time))

----------------------------------------------------------------------------
(* lib.rs: the contract *)

VARIABLES
    now,                \* env.ledger().timestamp()
    overflow_checks,    \* the build: TRUE aborts on u64 overflow, FALSE wraps
    config,             \* DataKey::Admin: the ContractConfig
    conditions,         \* DataKey::SwapConditions: id -> SwapCondition
    user_conditions,    \* DataKey::UserConditions(user): user -> ids
    executions,         \* DataKey::SwapExecutions: id -> execution records
    next_condition_id,  \* DataKey::NextConditionId
    stats,              \* DataKey::GlobalStats
    eval                \* the last call of a function that touches no storage

vars == <<now, overflow_checks, config, conditions, user_conditions, executions,
          next_condition_id, stats, eval>>

storage == <<config, conditions, user_conditions, executions, next_condition_id, stats>>

Admin == "admin"
Users == {"alice", "bob"}
\* the users that create conditions; every user may call the other entry points
Owners == {"alice"}

\* what an invocation did with the DEX
NoSwap == [called |-> FALSE, performed |-> FALSE, below_min |-> FALSE, success |-> FALSE]

Call(op, caller, id, result, value, price_data, fired, swap) ==
    [op |-> op, caller |-> caller, id |-> id, result |-> result, value |-> value,
     price_data |-> price_data, fired |-> fired, swap |-> swap]

\* an invocation that returns before any price is fetched
Plain(op, caller, id, result, value) ==
    Call(op, caller, id, result, value, NoPriceData, FALSE, NoSwap)

\* no function has been called yet
NoEval == [fn |-> "none", input |-> <<>>, output |-> <<>>]

\* a u64 overflow aborts the invocation in a build with overflow checks
Panics(o) == overflow_checks /\ o

\* SmartSwap::initialize
Initialized ==
    /\ config = [admin |-> Admin,
                 oracle_config |-> DefaultOracleConfig,
                 dex_config |-> DefaultDexConfig,
                 paused |-> FALSE,
                 max_conditions_per_user |-> 50,
                 min_condition_value |-> W(100000000)]
    /\ conditions = <<>>
    /\ executions = <<>>
    /\ user_conditions = [u \in Users |-> <<>>]
    /\ next_condition_id = 1
    /\ stats = [total_conditions_created |-> 0,
                total_conditions_executed |-> 0,
                total_volume_swapped |-> <<>>,
                total_fees_collected |-> 0,
                active_conditions_count |-> 0]

\* check_not_paused that never refuses
PauseIgnored == "ok"

check_not_paused == IF config.paused THEN "contract_paused" ELSE "ok"

check_admin(caller) == IF caller # config.admin THEN "unauthorized" ELSE "ok"

\* the number of the user's ids whose condition is Active
RECURSIVE CountActive(_)
CountActive(ids) ==
    IF ids = <<>> THEN 0
    ELSE (IF Head(ids) \in DOMAIN conditions /\ conditions[Head(ids)].status = "Active"
          THEN 1 ELSE 0) + CountActive(Tail(ids))

\* a ceiling on all the conditions a user ever created, Active or not
LimitCountsEveryCondition(user, max_conditions) ==
    IF Len(user_conditions[user]) >= max_conditions
    THEN "condition_limit_exceeded" ELSE "ok"

check_user_condition_limit(user, max_conditions) ==
    IF CountActive(user_conditions[user]) >= max_conditions
    THEN "condition_limit_exceeded" ELSE "ok"

\* Map::set
MapSet(m, k, v) == [x \in DOMAIN m \cup {k} |-> IF x = k THEN v ELSE m[x]]

\* a store_execution_record that keeps only the latest record of a condition
StoreLatestRecordOnly(condition_id, execution) ==
    MapSet(executions, condition_id, <<execution>>)

store_execution_record(condition_id, execution) ==
    MapSet(executions, condition_id,
           Append(IF condition_id \in DOMAIN executions THEN executions[condition_id]
                  ELSE <<>>, execution))

\* a saturating_sub that is left out: the counter keeps its value
NoDecrement(n, k) == n

SatDec(n, k) == IF n >= k THEN n - k ELSE 0

\* an invocation that fails after it has taken an id from the counter
UnchangedButIdTaken(call) ==
    [call |-> call, conditions |-> conditions, user_conditions |-> user_conditions,
     executions |-> executions, next_condition_id |-> next_condition_id + 1,
     stats |-> stats]

\* what an invocation leaves in storage when it fails or aborts: nothing new
Unchanged(call) ==
    [call |-> call, conditions |-> conditions, user_conditions |-> user_conditions,
     executions |-> executions, next_condition_id |-> next_condition_id, stats |-> stats]

\* an id counter that hands out its value and stays where it is
NextIdNotAdvanced == [id |-> next_condition_id, next |-> next_condition_id]

\* SmartSwap::get_next_condition_id: the id handed out and the counter stored
get_next_condition_id == [id |-> next_condition_id, next |-> next_condition_id + 1]

\* SmartSwap::create_swap_condition
CreateOutcome(caller, request) ==
    LET op(result) == Plain("create", caller, 0, result, 0)
        condition_id == get_next_condition_id.id
        Stored(current_price, swap_condition) ==
            [call |-> Call("create", caller, condition_id, "ok", condition_id,
                           current_price, FALSE, NoSwap),
             conditions |-> MapSet(conditions, condition_id, swap_condition),
             user_conditions |->
                 [user_conditions EXCEPT ![caller] = Append(@, condition_id)],
             executions |-> executions,
             next_condition_id |-> get_next_condition_id.next,
             stats |-> [stats EXCEPT !.total_conditions_created = @ + 1,
                                     !.active_conditions_count = @ + 1]]
        Liquid(current_price, has_liquidity, min_out) ==
            LET priced(result) ==
                    Call("create", caller, 0, result, 0, current_price, FALSE, NoSwap)
            IN  IF Panics(has_liquidity.o) THEN Unchanged(priced("panic"))
                ELSE IF ~has_liquidity.v
                THEN Unchanged(priced("insufficient_liquidity"))
                ELSE IF Panics(min_out.o) \/ min_out.dz THEN Unchanged(priced("panic"))
                ELSE Stored(current_price,
                            NewSwapCondition(condition_id, caller, request,
                                             current_price.price, min_out.v, now))
        Validated(current_price, pv) ==
            IF pv # "ok"
            THEN Unchanged(Call("create", caller, 0, pv, 0, current_price, FALSE, NoSwap))
            ELSE Liquid(current_price,
                        check_liquidity(config.dex_config, request.source_asset,
                                        request.destination_asset,
                                        request.amount_to_swap, now),
                        calculate_min_amount_out(request.amount_to_swap,
                                                 current_price.price,
                                                 request.max_slippage))
        Priced(price_result) ==
            IF Panics(price_result.o) THEN Unchanged(op("panic"))
            ELSE IF ~price_result.success THEN Unchanged(op(price_result.error_message))
            ELSE Validated(price_result.price_data,
                           validate_price_for_swap(price_result.price_data,
                                                   config.oracle_config, now))
        Admitted(v, limit) ==
            IF v # "ok" THEN Unchanged(op(v))
            ELSE IF limit # "ok" THEN Unchanged(op(limit))
            ELSE IF WLt(request.amount_to_swap, config.min_condition_value)
            THEN Unchanged(op("amount_below_minimum"))
            ELSE Priced(get_price(config.oracle_config, request.source_asset, now))
    IN  IF check_not_paused # "ok" THEN Unchanged(op(check_not_paused))
        ELSE Admitted(validate(request, now),
                      check_user_condition_limit(caller, config.max_conditions_per_user))

\* the SwapParams that SmartSwap::execute_swap builds for a condition
SwapParamsOf(condition) ==
    [token_in |-> condition.source_asset,
     token_out |-> condition.destination_asset,
     amount_in |-> condition.amount_to_swap,
     amount_out_min |-> condition.min_amount_out,
     to |-> condition.owner,
     deadline |-> now + 300]

\* SmartSwap::execute_swap: Ok(execution) exactly when the swap result says success
execute_swap(condition, current_price) ==
    LET Recorded(swap_result, execution) ==
            [ok |-> swap_result.success,
             error |-> swap_result.error_message,
             execution |-> execution.rec,
             success |-> swap_result.success,
             o |-> swap_result.o \/ execution.o,
             swap |-> [called |-> TRUE,
                       performed |-> swap_result.performed,
                       below_min |-> /\ swap_result.quoted.error = "ok"
                                     /\ WLt(swap_result.quoted.amount_out,
                                            condition.min_amount_out),
                       success |-> swap_result.success]]
        Swapped(swap_result) ==
            Recorded(swap_result,
                     NewSwapExecution(condition.id, current_price.price,
                                      swap_result.amount_in, swap_result.amount_out,
                                      swap_result.gas_used, swap_result.transaction_hash,
                                      now))
    IN  Swapped(dex_execute_swap(config.dex_config, SwapParamsOf(condition), now))

\* the stats of an execution with the active count taken down every time
ExecutedStatsAlwaysDecrement(condition, execution) ==
    LET Counted(volume) ==
            [v |-> [stats EXCEPT
                      !.total_conditions_executed = @ + 1,
                      !.total_volume_swapped = volume.v,
                      !.active_conditions_count = SatDec(@, 1)],
             o |-> volume.o]
    IN  Counted(Add64(stats.total_volume_swapped, execution.amount_in))

\* update_global_stats after a successful execution, and the active count
ExecutedStats(condition, execution) ==
    LET Counted(volume) ==
            [v |-> [stats EXCEPT
                      !.total_conditions_executed = @ + 1,
                      !.total_volume_swapped = volume.v,
                      !.active_conditions_count =
                          IF condition.status = "Executed" THEN SatDec(@, 1) ELSE @],
             o |-> volume.o]
    IN  Counted(Add64(stats.total_volume_swapped, execution.amount_in))

\* a check that does not fire and forgets to record its time
LastCheckNotRecorded(condition, current_time) == condition

\* the trigger did not fire: only the time of the check is recorded
update_last_check(condition, current_time) ==
    [condition EXCEPT !.last_check = current_time]

\* SmartSwap::check_and_execute_condition
CheckOutcome(condition_id) ==
    LET op(result) == Plain("check", NoSymbol, condition_id, result, "none")
        Swapped(condition, current_price, execution_result) ==
            LET done(result, value) ==
                    Call("check", NoSymbol, condition_id, result, value, current_price,
                         TRUE, execution_result.swap)
                Counted(executed, new_stats) ==
                    IF Panics(new_stats.o) THEN Unchanged(done("panic", "none"))
                    ELSE [call |-> done("ok", "Some"),
                          conditions |-> MapSet(conditions, condition_id, executed),
                          user_conditions |-> user_conditions,
                          executions |->
                              store_execution_record(condition_id,
                                                     execution_result.execution),
                          next_condition_id |-> next_condition_id,
                          stats |-> new_stats.v]
                Executed(executed) ==
                    Counted(executed, ExecutedStats(executed, execution_result.execution))
            IN  IF Panics(execution_result.o) THEN Unchanged(done("panic", "none"))
                ELSE IF ~execution_result.ok
                THEN Unchanged(done(execution_result.error, "none"))
                ELSE IF execution_result.success
                THEN Executed(update_execution(condition, now))
                ELSE [Unchanged(done("ok", "Some")) EXCEPT
                        !.conditions = MapSet(conditions, condition_id,
                                              mark_as_failed(condition))]
        Priced(condition, current_price, fire) ==
            LET done(result, value) ==
                    Call("check", NoSymbol, condition_id, result, value, current_price,
                         FALSE, NoSwap)
            IN  IF Panics(fire.o) THEN Unchanged(done("panic", "none"))
                ELSE IF ~fire.v
                THEN [Unchanged(done("ok", "None")) EXCEPT
                        !.conditions = MapSet(conditions, condition_id,
                                              update_last_check(condition, now))]
                ELSE Swapped(condition, current_price,
                             execute_swap(condition, current_price))
        Valid(condition, price_result) ==
            IF Panics(price_result.o) THEN Unchanged(op("panic"))
            ELSE IF ~price_result.success THEN Unchanged(op(price_result.error_message))
            ELSE Priced(condition, price_result.price_data,
                        should_execute(condition, price_result.price_data.price))
        Found(condition, valid) ==
            IF valid # "ok" THEN Unchanged(op(valid))
            ELSE Valid(condition,
                       get_price(config.oracle_config, condition.source_asset, now))
    IN  IF check_not_paused # "ok" THEN Unchanged(op(check_not_paused))
        ELSE IF condition_id \notin DOMAIN conditions
        THEN Unchanged(op("condition_not_found"))
        ELSE Found(conditions[condition_id], is_valid(conditions[condition_id], now))

\* cancel_condition without the test that the condition is Active
CancelAnyStatus(caller, condition_id) ==
    LET op(result) == Plain("cancel", caller, condition_id, result, "none")
        condition == conditions[condition_id]
    IN  IF condition_id \notin DOMAIN conditions
        THEN Unchanged(op("condition_not_found"))
        ELSE IF condition.owner # caller THEN Unchanged(op("not_owner"))
        ELSE [Unchanged(op("ok")) EXCEPT
                !.conditions = MapSet(conditions, condition_id, cancel(condition)),
                !.stats = [stats EXCEPT !.active_conditions_count = SatDec(@, 1)]]

\* cancel_condition with the status matched before the owner is compared
CancelStatusFirst(caller, condition_id) ==
    LET op(result) == Plain("cancel", caller, condition_id, result, "none")
        condition == conditions[condition_id]
    IN  IF condition_id \notin DOMAIN conditions
        THEN Unchanged(op("condition_not_found"))
        ELSE IF condition.status # "Active" THEN Unchanged(op("cannot_cancel"))
        ELSE IF condition.owner # caller THEN Unchanged(op("not_owner"))
        ELSE [Unchanged(op("ok")) EXCEPT
                !.conditions = MapSet(conditions, condition_id, cancel(condition)),
                !.stats = [stats EXCEPT !.active_conditions_count = SatDec(@, 1)]]

\* cancel_condition without the update of the aggregate stats
CancelKeepsCount(caller, condition_id) ==
    LET op(result) == Plain("cancel", caller, condition_id, result, "none")
        condition == conditions[condition_id]
    IN  IF condition_id \notin DOMAIN conditions
        THEN Unchanged(op("condition_not_found"))
        ELSE IF condition.owner # caller THEN Unchanged(op("not_owner"))
        ELSE IF condition.status = "Active"
        THEN [Unchanged(op("ok")) EXCEPT
                !.conditions = MapSet(conditions, condition_id, cancel(condition))]
        ELSE Unchanged(op("cannot_cancel"))

\* a cancel_condition that begins with check_not_paused, as create and check do
CancelRefusedWhenPaused(caller, condition_id) ==
    LET op(result) == Plain("cancel", caller, condition_id, result, "none")
        condition == conditions[condition_id]
    IN  IF check_not_paused # "ok" THEN Unchanged(op(check_not_paused))
        ELSE IF condition_id \notin DOMAIN conditions
        THEN Unchanged(op("condition_not_found"))
        ELSE IF condition.owner # caller THEN Unchanged(op("not_owner"))
        ELSE IF condition.status = "Active"
        THEN [Unchanged(op("ok")) EXCEPT
                !.conditions = MapSet(conditions, condition_id, cancel(condition)),
                !.stats = [stats EXCEPT !.active_conditions_count = SatDec(@, 1)]]
        ELSE Unchanged(op("cannot_cancel"))

\* SmartSwap::cancel_condition
CancelOutcome(caller, condition_id) ==
    LET op(result) == Plain("cancel", caller, condition_id, result, "none")
        condition == conditions[condition_id]
    IN  IF condition_id \notin DOMAIN conditions
        THEN Unchanged(op("condition_not_found"))
        ELSE IF condition.owner # caller THEN Unchanged(op("not_owner"))
        ELSE IF condition.status = "Active"
        THEN [Unchanged(op("ok")) EXCEPT
                !.conditions = MapSet(conditions, condition_id, cancel(condition)),
                !.stats = [stats EXCEPT !.active_conditions_count = SatDec(@, 1)]]
        ELSE Unchanged(op("cannot_cancel"))

\* the loop of cleanup_expired_conditions without its test of the limit
RECURSIVE CleanupIgnoresLimit(_, _, _, _)
CleanupIgnoresLimit(id, conds, cleaned_count, limit) ==
    IF id >= next_condition_id
    THEN [conditions |-> conds, cleaned_count |-> cleaned_count]
    ELSE IF id \in DOMAIN conds /\ now > conds[id].expires_at
                                /\ conds[id].status = "Active"
    THEN CleanupIgnoresLimit(id + 1, MapSet(conds, id, mark_as_expired(conds[id], now)),
                             cleaned_count + 1, limit)
    ELSE CleanupIgnoresLimit(id + 1, conds, cleaned_count, limit)

\* the loop of cleanup_expired_conditions, ended by the first condition it
\* has nothing to do for
RECURSIVE CleanupStopsAtKept(_, _, _, _)
CleanupStopsAtKept(id, conds, cleaned_count, limit) ==
    IF id >= next_condition_id \/ cleaned_count >= limit
    THEN [conditions |-> conds, cleaned_count |-> cleaned_count]
    ELSE IF id \in DOMAIN conds /\ now > conds[id].expires_at
                                /\ conds[id].status = "Active"
    THEN CleanupStopsAtKept(id + 1, MapSet(conds, id, mark_as_expired(conds[id], now)),
                            cleaned_count + 1, limit)
    ELSE [conditions |-> conds, cleaned_count |-> cleaned_count]

\* the loop of cleanup_expired_conditions over the ids in key order, from id on
RECURSIVE CleanupFrom(_, _, _, _)
CleanupFrom(id, conds, cleaned_count, limit) ==
    IF id >= next_condition_id \/ cleaned_count >= limit
    THEN [conditions |-> conds, cleaned_count |-> cleaned_count]
    ELSE IF id \in DOMAIN conds /\ now > conds[id].expires_at
                                /\ conds[id].status = "Active"
    THEN CleanupFrom(id + 1, MapSet(conds, id, mark_as_expired(conds[id], now)),
                     cleaned_count + 1, limit)
    ELSE CleanupFrom(id + 1, conds, cleaned_count, limit)

\* SmartSwap::cleanup_expired_conditions
CleanupOutcome(limit) ==
    LET r == CleanupFrom(1, conditions, 0, limit)
        call == Plain("cleanup", NoSymbol, 0, "ok", r.cleaned_count)
    IN  IF r.cleaned_count > 0
        THEN [Unchanged(call) EXCEPT
                !.conditions = r.conditions,
                !.stats = [stats EXCEPT
                             !.active_conditions_count = SatDec(@, r.cleaned_count)]]
        ELSE Unchanged(call)

----------------------------------------------------------------------------
(* Bounds and inputs *)

MaxConditions == 2
MaxAdminConditions == 1
MaxExecutionCount == 2
MaxWideConditions == 1
MaxLimitConditions == 52

StartTimes == {300}
LedgerTimes == {360, 361}
CleanupLimits == {1, 2}
OracleConfigs ==
    {DefaultOracleConfig,
     [max_price_age |-> 300, fallback_enabled |-> TRUE, min_confidence |-> 90],
     [max_price_age |-> 0, fallback_enabled |-> TRUE, min_confidence |-> 70]}

Req(token_in, token_out, kind, target, max_executions) ==
    [source_asset |-> token_in, destination_asset |-> token_out,
     condition_type |-> [kind |-> kind, arg |-> W(target)],
     amount_to_swap |-> W(100000000), max_slippage |-> 500,
     expires_at |-> now + MIN_CONDITION_LIFETIME, max_executions |-> max_executions]

Requests ==
    {Req("XLM", "BTC", "PriceAbove", 100000, 1),
     Req("XLM", "BTC", "PriceAbove", 100000, 2),
     Req("XLM", "BTC", "PriceBelow", 119000, 0),
     Req("USDC", "BTC", "PriceAbove", 100000, 1)}

\* the one request with which a user fills the per-user ceiling
LimitRequests == {Req("XLM", "BTC", "PriceAbove", 100000, 1)}

\* requests over more assets, amounts and slippages, two of them not admitted
WideReq(token_in, token_out, amount, max_slippage) ==
    [source_asset |-> token_in, destination_asset |-> token_out,
     condition_type |-> [kind |-> "PriceAbove", arg |-> W(1)],
     amount_to_swap |-> W(amount), max_slippage |-> max_slippage,
     expires_at |-> now + MIN_CONDITION_LIFETIME, max_executions |-> 1]

WideRequests ==
    {WideReq("XLM", "USDC", 100000000, 500),
     WideReq("XLM", "BTC", 123456789, 1),
     WideReq("USDC", "XLM", 250000000, 5000),
     WideReq("ETH", "XLM", 400000000, 250),
     WideReq("BTC", "XLM", 100000000, 300),
     WideReq("BTC", "XLM", 500000000, 500),
     WideReq("XLM", "XLM", 100000000, 500),
     WideReq("XLM", "USDC", 99999999, 500)}

\* the request of create_test_swap_request, expiring one second from now
ShortLivedRequests ==
    {[source_asset |-> "XLM", destination_asset |-> "USDC",
      condition_type |-> [kind |-> "PercentageIncrease", arg |-> 10],
      amount_to_swap |-> W(1000000000), max_slippage |-> 500,
      expires_at |-> now + 1, max_executions |-> 1]}

----------------------------------------------------------------------------
(* The entry points as actions *)

Apply(outcome) ==
    /\ conditions' = outcome.conditions
    /\ user_conditions' = outcome.user_conditions
    /\ executions' = outcome.executions
    /\ next_condition_id' = outcome.next_condition_id
    /\ stats' = outcome.stats
    /\ UNCHANGED <<now, overflow_checks, config, eval>>

Create(max_id) ==
    \E caller \in Owners, request \in Requests :
        /\ next_condition_id <= max_id
        /\ Apply(CreateOutcome(caller, request))

create_swap_condition == Create(MaxConditions)

\* the outcome is applied unless it takes an execution count past the bound
ApplyBounded(outcome) ==
    /\ \A id \in DOMAIN outcome.conditions :
           outcome.conditions[id].execution_count <= MaxExecutionCount
    /\ Apply(outcome)

check_and_execute_condition ==
    \E condition_id \in 1..MaxConditions : ApplyBounded(CheckOutcome(condition_id))

cancel_condition ==
    \E caller \in Users, condition_id \in 1..MaxConditions :
        Apply(CancelOutcome(caller, condition_id))

cleanup_expired_conditions ==
    \E limit \in CleanupLimits : Apply(CleanupOutcome(limit))

\* SmartSwap::set_pause_status
PauseOutcome(caller, paused) ==
    IF check_admin(caller) # "ok"
    THEN [result |-> check_admin(caller), config |-> config]
    ELSE [result |-> "ok", config |-> [config EXCEPT !.paused = paused]]

set_pause_status ==
    \E caller \in {Admin, "alice"}, paused \in BOOLEAN :
        /\ config' = PauseOutcome(caller, paused).config
        /\ UNCHANGED <<now, overflow_checks, conditions, user_conditions, executions,
                       next_condition_id, stats, eval>>

\* SmartSwap::update_oracle_config
OracleConfigOutcome(caller, new_oracle_config) ==
    IF check_admin(caller) # "ok"
    THEN [result |-> check_admin(caller), config |-> config]
    ELSE IF OracleValidateConfig(new_oracle_config) # "ok"
    THEN [result |-> OracleValidateConfig(new_oracle_config), config |-> config]
    ELSE [result |-> "ok",
          config |-> [config EXCEPT !.oracle_config = new_oracle_config]]

update_oracle_config ==
    \E caller \in {Admin, "alice"}, new_oracle_config \in OracleConfigs :
        /\ config' = OracleConfigOutcome(caller, new_oracle_config).config
        /\ UNCHANGED <<now, overflow_checks, conditions, user_conditions, executions,
                       next_condition_id, stats, eval>>

\* the ledger closes: the clock moves on
AdvanceClock ==
    \E t \in LedgerTimes :
        /\ now < t
        /\ now' = t
        /\ UNCHANGED <<overflow_checks, config, conditions, user_conditions, executions,
                       next_condition_id, stats, eval>>

Init ==
    /\ now \in StartTimes
    /\ overflow_checks \in BOOLEAN
    /\ Initialized
    /\ eval = NoEval

\* the life of the conditions under the configuration of initialize
Next ==
    \/ create_swap_condition
    \/ check_and_execute_condition
    \/ cancel_condition
    \/ cleanup_expired_conditions
    \/ AdvanceClock

Spec == Init /\ [][Next]_vars

\* a request whose trigger fires at once and one whose trigger never fires
CleanupRequests ==
    {Req("XLM", "BTC", "PriceAbove", 100000, 1), Req("XLM", "BTC", "PriceBelow", 119000, 0)}

CleanupCreate ==
    \E caller \in Owners, request \in CleanupRequests :
        /\ next_condition_id <= MaxConditions
        /\ Apply(CreateOutcome(caller, request))

NextCleanup ==
    \/ CleanupCreate
    \/ check_and_execute_condition
    \/ cancel_condition
    \/ cleanup_expired_conditions
    \/ AdvanceClock

\* the life of the conditions with cleanup_expired_conditions called again and
\* again
SpecCleanup == Init /\ [][NextCleanup]_vars /\ WF_vars(cleanup_expired_conditions)

AdminCreate == Create(MaxAdminConditions)

\* the same with the admin pausing the contract and changing the oracle gates
NextAdmin ==
    \/ AdminCreate
    \/ check_and_execute_condition
    \/ cancel_condition
    \/ cleanup_expired_conditions
    \/ set_pause_status
    \/ update_oracle_config
    \/ AdvanceClock

SpecAdmin == Init /\ [][NextAdmin]_vars

WideCreate ==
    \E caller \in Users, request \in WideRequests :
        /\ next_condition_id <= MaxWideConditions
        /\ Apply(CreateOutcome(caller, request))

ShortLivedCreate ==
    \E caller \in Users, request \in ShortLivedRequests :
        /\ next_condition_id <= MaxWideConditions
        /\ Apply(CreateOutcome(caller, request))

\* one condition of either user, from the wider set of requests
NextWide ==
    \/ WideCreate
    \/ ShortLivedCreate
    \/ check_and_execute_condition
    \/ cancel_condition
    \/ cleanup_expired_conditions
    \/ AdvanceClock

SpecWide == Init /\ [][NextWide]_vars

LimitCreate ==
    \E request \in LimitRequests :
        /\ next_condition_id <= MaxLimitConditions
        /\ Apply(CreateOutcome("alice", request))

\* one user creating up to the ceiling of initialize, at one ledger time
NextLimit ==
    \/ LimitCreate
    \/ check_and_execute_condition
    \/ cancel_condition

SpecLimit == Init /\ [][NextLimit]_vars

----------------------------------------------------------------------------
(* The functions that touch no storage, called on their own *)

\* a call, when none is in progress, and what it returns
Evaluate(fn, input, output) ==
    /\ eval = NoEval
    /\ eval' = [fn |-> fn, input |-> input, output |-> output]
    /\ UNCHANGED <<now, overflow_checks, config, conditions, user_conditions,
                   executions, next_condition_id, stats>>

\* the condition types at and beside the limits of validate_condition_type
ValidateTypes ==
    [kind : {"PercentageIncrease", "PercentageDecrease"},
     arg : {0, MIN_PERCENTAGE_CHANGE, MAX_PERCENTAGE_CHANGE, MAX_PERCENTAGE_CHANGE + 1}]
    \cup [kind : {"TargetPrice", "PriceAbove", "PriceBelow"}, arg : {<<>>, W(1)}]

\* the expiry times at and beside the limits of validate, the past included
ValidateExpiries ==
    {0, now - 1, now, now + 1, now + MIN_CONDITION_LIFETIME - 1,
     now + MIN_CONDITION_LIFETIME, now + MAX_CONDITION_LIFETIME,
     now + MAX_CONDITION_LIFETIME + 1}

\* every combination of passing and failing fields
ValidateRequests ==
    [source_asset : {"XLM"},
     destination_asset : {"XLM", "USDC"},
     condition_type : ValidateTypes,
     amount_to_swap : {WSub(MIN_SWAP_AMOUNT, W(1)), MIN_SWAP_AMOUNT, MAX_SWAP_AMOUNT,
                       WAdd(MAX_SWAP_AMOUNT, W(1))},
     max_slippage : {0, MIN_SLIPPAGE_BASIS_POINTS, MAX_SLIPPAGE_BASIS_POINTS,
                     MAX_SLIPPAGE_BASIS_POINTS + 1},
     expires_at : ValidateExpiries,
     max_executions : {1}]

EvalValidate ==
    \E request \in ValidateRequests :
        Evaluate("validate", request, validate(request, now))

\* the condition types of should_execute: percentages up to the admitted maximum,
\* targets and thresholds from 1 to the oracle's largest price
TriggerTypes ==
    [kind : {"PercentageIncrease", "PercentageDecrease"},
     arg : {MIN_PERCENTAGE_CHANGE, 10, 100, 150, MAX_PERCENTAGE_CHANGE}]
    \cup [kind : {"TargetPrice", "PriceAbove", "PriceBelow"},
          arg : {W(1), W(999), W(1000), W(120000), Dec(45, 0)}]

\* the reference prices: that of the tests, one that 100 does not divide, and the
\* oracle's smallest and largest; only the percentage types read the reference price
ReferencePrices(condition_type) ==
    IF condition_type.kind \in {"PercentageIncrease", "PercentageDecrease"}
    THEN {W(100000), W(120033), W(120000), Dec(45, 0)}
    ELSE {W(100000)}

\* the prices around which the answers of should_execute change
PricePoints ==
    {0, 1, 999, 1000, 1001, 90000, 100000, 101000, 105000, 110000, 115000, 119880,
     119900, 120000, 120100, 120120, 130000, 121233, 118833, 132036, 108030}

\* how far around each point the prices are taken
PriceWindow == 1

\* the same around the oracle's largest price, beyond 2^31
LargePrices ==
    {Dec(40, 500000000), Dec(44, 549999999), Dec(44, 550000000), Dec(44, 954999999),
     Dec(44, 955000000), Dec(44, 999999999), Dec(45, 0), Dec(45, 1), Dec(45, 45000000), Dec(45, 45000001),
     Dec(45, 449999999), Dec(45, 450000000), Dec(49, 499999999), Dec(49, 500000000)}

TriggerPrices ==
    {W(n) : n \in {m \in UNION {(b - PriceWindow)..(b + PriceWindow) : b \in PricePoints} :
                      m >= 0}}
    \cup LargePrices

\* a condition as the tests build it, only its type and reference price varying
TriggerCondition(condition_type, reference_price) ==
    NewSwapCondition(1, "alice",
                     [source_asset |-> "XLM", destination_asset |-> "USDC",
                      condition_type |-> condition_type,
                      amount_to_swap |-> W(1000000000), max_slippage |-> 500,
                      expires_at |-> now + 3600, max_executions |-> 1],
                     reference_price, W(900000000), now)

EvalShouldExecute ==
    \E condition_type \in TriggerTypes :
      \E reference_price \in ReferencePrices(condition_type),
         current_price \in TriggerPrices :
        Evaluate("should_execute",
                 [condition |-> TriggerCondition(condition_type, reference_price),
                  current_price |-> current_price],
                 should_execute(TriggerCondition(condition_type, reference_price),
                                current_price))

\* the pool of the specification's example
ExamplePool ==
    [token_a |-> "XLM", token_b |-> "USDC",
     reserve_a |-> W(10000000), reserve_b |-> W(1200000),
     total_supply |-> W(11200000), fee_rate |-> 30, last_updated |-> now, o |-> FALSE]

\* the example's pool and the simulated pools that get_pool_info returns
SwapPools ==
    {ExamplePool}
    \cup {get_pool_info(config.dex_config, pair[1], pair[2], now) :
              pair \in {<<"XLM", "USDC">>, <<"BTC", "XLM">>, <<"USDC", "BTC">>}}

\* the example's amount, the smallest amounts, and amounts that validate admits
SwapAmounts ==
    {W(1), W(1000), W(9999), W(10000000), W(100000000), W(200000000), W(250000000),
     W(1000000000)}

EvalSwapOutput ==
    \E pool_info \in SwapPools, amount_in \in SwapAmounts, is_token_a_input \in BOOLEAN :
        Evaluate("calculate_swap_output",
                 [pool_info |-> pool_info, amount_in |-> amount_in,
                  is_token_a_input |-> is_token_a_input],
                 calculate_swap_output(pool_info, amount_in, is_token_a_input))

\* oracle configurations on both sides of the primary source's confidence, 85
PriceConfigs ==
    [max_price_age : {60, 300, 3600}, fallback_enabled : BOOLEAN,
     min_confidence : {70, 85, 86, 90}]

\* the assets the simulated oracle knows and one it does not
PriceAssets == {"XLM", "USDC", "BTC", "ETH", "DOGE"}

EvalGetPrice ==
    \E oracle_config \in PriceConfigs, asset_symbol \in PriceAssets :
        Evaluate("get_price",
                 [oracle_config |-> oracle_config, asset_symbol |-> asset_symbol],
                 get_price(oracle_config, asset_symbol, now))

\* price data at and beside each limit of the quality gate, one stamped ahead of
\* the ledger time
GatePriceData ==
    [asset_symbol : {"XLM"},
     price : {<<>>, W(120000)},
     timestamp : {W(now + 5), W(now), W(now - 60), W(now - 61), W(now - 300)},
     confidence : {69, 70, 85, 90},
     source_count : {1, 2}]

EvalIsPriceDataValid ==
    \E price_data \in GatePriceData, oracle_config \in PriceConfigs :
        Evaluate("is_price_data_valid",
                 [price_data |-> price_data, oracle_config |-> oracle_config],
                 is_price_data_valid(price_data, oracle_config, now))

\* the prices the simulated oracle returns, primary and historical
OraclePrices ==
    {query_oracle_price(asset, now).data.price : asset \in {"XLM", "USDC", "BTC", "ETH"}}
    \cup {query_historical_price(asset, now).data.price :
              asset \in {"XLM", "USDC", "BTC", "ETH"}}

\* amounts from the smallest to the largest that validate admits
AdmittedAmounts ==
    {MIN_SWAP_AMOUNT, W(100000000), W(500000000), W(1000000000), MAX_SWAP_AMOUNT}

EvalMinAmountOut ==
    \E amount_in \in AdmittedAmounts, reference_price \in OraclePrices,
       max_slippage \in {MIN_SLIPPAGE_BASIS_POINTS, 500, MAX_SLIPPAGE_BASIS_POINTS} :
        Evaluate("calculate_min_amount_out",
                 [amount_in |-> amount_in, reference_price |-> reference_price,
                  max_slippage |-> max_slippage],
                 calculate_min_amount_out(amount_in, reference_price, max_slippage))

\* the caller has taken the result
Return ==
    /\ eval # NoEval
    /\ eval' = NoEval
    /\ UNCHANGED <<now, overflow_checks, config, conditions, user_conditions,
                   executions, next_condition_id, stats>>

NextPure ==
    \/ EvalValidate
    \/ EvalShouldExecute
    \/ EvalSwapOutput
    \/ EvalGetPrice
    \/ EvalIsPriceDataValid
    \/ EvalMinAmountOut
    \/ Return

SpecPure == Init /\ [][NextPure]_vars

----------------------------------------------------------------------------
(* The liquidity check, called on its own and from create_swap_condition *)

----------------------------------------------------------------------------
(* The price lookup in the first five minutes of the ledger clock *)

\* ledger timestamps below the 300 seconds that query_historical_price subtracts
EarlyTimes == {0, 1, 299}

InitEarly ==
    /\ now \in EarlyTimes
    /\ overflow_checks \in BOOLEAN
    /\ Initialized
    /\ eval = NoEval

NextEarly == EvalGetPrice \/ Return

SpecEarly == InitEarly /\ [][NextEarly]_vars

----------------------------------------------------------------------------
(* create_swap_condition with every ground of refusal the administrator and the
   caller can bring about *)

NextReject ==
    \/ WideCreate
    \/ ShortLivedCreate
    \/ cancel_condition
    \/ set_pause_status
    \/ update_oracle_config

SpecReject == Init /\ [][NextReject]_vars

\* the default configuration, and minimum liquidities at and above the total of
\* the USDC/BTC pool
LiquidityConfigs ==
    {DefaultDexConfig,
     [DefaultDexConfig EXCEPT !.min_liquidity = Dec(4501, 0)],
     [DefaultDexConfig EXCEPT !.min_liquidity = Dec(4501, 1)]}

LiquidityPairs ==
    {<<"XLM", "USDC">>, <<"USDC", "XLM">>, <<"XLM", "BTC">>, <<"BTC", "XLM">>,
     <<"USDC", "BTC">>, <<"ETH", "XLM">>, <<"XLM", "DOGE">>}

\* amounts at half of each pool's first reserve and one above, and small ones
LiquidityAmounts ==
    {W(1), W(100000000), Dec(0, 500000000), Dec(0, 500000001), Dec(1, 0),
     Dec(5, 0), Dec(5, 1), Dec(2250, 0), Dec(2250, 1), Dec(5000, 0), Dec(5000, 1),
     Dec(50000, 0), Dec(50000, 1)}

EvalCheckLiquidity ==
    \E dex_config \in LiquidityConfigs, pair \in LiquidityPairs,
       amount_in \in LiquidityAmounts :
        Evaluate("check_liquidity",
                 [dex_config |-> dex_config, token_in |-> pair[1],
                  token_out |-> pair[2], amount_in |-> amount_in],
                 check_liquidity(dex_config, pair[1], pair[2], amount_in, now))

\* requests on both sides of the liquidity check
LiquidityRequests ==
    {WideReq("XLM", "USDC", 100000000, 500),
     WideReq("XLM", "BTC", 500000000, 500),
     WideReq("XLM", "BTC", 500000001, 500),
     WideReq("XLM", "BTC", 1000000000, 500)}

LiquidityCreate ==
    \E caller \in Users, request \in LiquidityRequests :
        /\ next_condition_id <= MaxWideConditions
        /\ Apply(CreateOutcome(caller, request))

NextLiquidity ==
    \/ EvalCheckLiquidity
    \/ LiquidityCreate
    \/ Return

SpecLiquidity == Init /\ [][NextLiquidity]_vars

----------------------------------------------------------------------------
(* Properties of the condition lifecycle *)

ConditionIds == DOMAIN conditions

History(id) == IF id \in DOMAIN executions THEN executions[id] ELSE <<>>

\* the errors with which is_valid rejects a condition
InvalidErrors ==
    {"condition_expired", "already_executed", "execution_limit_reached",
     "condition_cancelled", "condition_failed"}

\* C1: terminal statuses are absorbing.  In every step (a create, a check, a
\* cancel, a cleanup or a clock advance) a condition whose status is Executed,
\* Cancelled, Failed or Expired is still stored afterwards with that status.
TerminalAbsorbing ==
    [][\A id \in ConditionIds :
          conditions[id].status \in TerminalStatus
              => /\ id \in DOMAIN conditions'
                 /\ conditions'[id].status = conditions[id].status]_vars

\* an Executed condition that the clock has moved past, next to a Cancelled or
\* Expired one: terminal conditions that later steps have had to leave alone
TerminalAbsorbingWitness ==
    \E id, other \in ConditionIds :
        /\ conditions[id].status = "Executed"
        /\ now > conditions[id].last_check
        /\ conditions[other].status \in {"Cancelled", "Expired"}
        /\ now > conditions[other].created_at

\* C2: in every reachable state a stored condition with max_executions > 0 has
\* execution_count <= max_executions.
ExecutionCountBounded ==
    \A id \in ConditionIds :
        conditions[id].max_executions > 0
            => conditions[id].execution_count <= conditions[id].max_executions

\* a condition with max_executions = 2 that has executed twice, and so is at
\* its limit
ExecutionCountBoundedWitness ==
    \E id \in ConditionIds :
        /\ conditions[id].max_executions = 2
        /\ conditions[id].execution_count = 2
        /\ Len(History(id)) = 2

\* C3: a check of a condition whose status is terminal, once past the pause
\* test, is rejected with is_valid's error, calls no swap and changes nothing;
\* and a condition with max_executions = 1 has at most one execution record
\* and at most one counted execution.
TerminalCheckRejected ==
    \A id \in ConditionIds :
        /\ (conditions[id].status \in TerminalStatus /\ ~config.paused)
              => LET outcome == CheckOutcome(id)
                 IN  /\ outcome.call.result \in InvalidErrors
                     /\ outcome.call.result = is_valid(conditions[id], now)
                     /\ ~outcome.call.swap.called
                     /\ outcome = Unchanged(outcome.call)
        /\ conditions[id].max_executions = 1
              => /\ Len(History(id)) <= 1
                 /\ conditions[id].execution_count <= 1

\* a condition with max_executions = 1 that has executed once and is Executed,
\* with the contract unpaused and before its expiry: a further check meets
\* is_valid's already_executed
TerminalCheckRejectedWitness ==
    \E id \in ConditionIds :
        /\ conditions[id].status = "Executed"
        /\ conditions[id].max_executions = 1
        /\ Len(History(id)) = 1
        /\ ~config.paused
        /\ CheckOutcome(id).call.result = "already_executed"


\* C4 (as the specification states it): when the trigger fires and the swap
\* reports failure, the check returns Some with the failed result, the
\* condition is stored with status Failed and no execution record is added.
SwapFailureMarksFailed ==
    \A id \in ConditionIds :
        LET outcome == CheckOutcome(id)
        IN  (/\ outcome.call.swap.called
             /\ ~outcome.call.swap.success
             /\ outcome.call.result # "panic")
                => /\ outcome.call.result = "ok"
                   /\ outcome.call.value = "Some"
                   /\ outcome.conditions[id].status = "Failed"
                   /\ outcome.executions = executions

\* C5: when a check calls the swap and the quote obtained for it is below the
\* condition's min_amount_out, perform_swap_execution is not invoked, the
\* swap is reported failed with the reason slippage_exceeded, which is what
\* the check returns, and nothing changes.
SlippageRejected ==
    \A id \in ConditionIds :
        LET outcome == CheckOutcome(id)
        IN  (/\ outcome.call.swap.called
             /\ outcome.call.swap.below_min
             /\ outcome.call.result # "panic")
                => /\ ~outcome.call.swap.performed
                   /\ ~outcome.call.swap.success
                   /\ outcome.call.result = "slippage_exceeded"
                   /\ outcome = Unchanged(outcome.call)

\* an Active condition whose swap is quoted 22155 for 10 USDC, below its
\* min_amount_out, and whose check fires and comes back slippage_exceeded
SlippageRejectedWitness ==
    \E id \in ConditionIds :
        LET outcome == CheckOutcome(id)
        IN  /\ WLt(get_swap_quote(config.dex_config, conditions[id].source_asset,
                                  conditions[id].destination_asset,
                                  conditions[id].amount_to_swap, now).amount_out,
                   conditions[id].min_amount_out)
            /\ outcome.call.fired
            /\ outcome.call.swap.called
            /\ outcome.call.result = "slippage_exceeded"

\* C6 (as the specification states it): a check that performs the swap and
\* returns its execution has used a price that validate_price_for_swap
\* accepts under the current oracle configuration.
ExecutionPriceValidated ==
    \A id \in ConditionIds :
        LET outcome == CheckOutcome(id)
        IN  (outcome.call.result = "ok" /\ outcome.call.swap.performed)
                => validate_price_for_swap(outcome.call.price_data,
                                           config.oracle_config, now) = "ok"

\* C7: a cancel by anyone but the owner of the condition fails with
\* not_owner whatever the status of the condition, and changes nothing: not
\* the condition, not the stats, not any other part of the storage.
NonOwnerCancelRejected ==
    \A id \in ConditionIds, caller \in Users \cup {Admin} :
        caller # conditions[id].owner
            => CancelOutcome(caller, id)
                   = Unchanged(Plain("cancel", caller, id, "not_owner", "none"))

\* an Active and a terminal condition of alice, which bob tries to cancel
NonOwnerCancelRejectedWitness ==
    \E id, other \in ConditionIds :
        /\ conditions[id].status = "Active"
        /\ conditions[other].status \in TerminalStatus
        /\ "bob" \notin {conditions[id].owner, conditions[other].owner}
        /\ CancelOutcome("bob", id).call.result = "not_owner"
        /\ CancelOutcome("bob", other).call.result = "not_owner"

\* C8: a cancel by the owner succeeds exactly when the condition is Active:
\* then the condition becomes Cancelled, active_conditions_count (at least 1
\* before) goes down by one and nothing else changes; from every other status
\* it fails with cannot_cancel and changes nothing.
OwnerCancel ==
    \A id \in ConditionIds :
        LET outcome == CancelOutcome(conditions[id].owner, id)
        IN  IF conditions[id].status = "Active"
            THEN /\ outcome.call.result = "ok"
                 /\ outcome.conditions = [conditions EXCEPT ![id].status = "Cancelled"]
                 /\ stats.active_conditions_count >= 1
                 /\ outcome.stats = [stats EXCEPT !.active_conditions_count = @ - 1]
                 /\ outcome.executions = executions
                 /\ outcome.user_conditions = user_conditions
                 /\ outcome.next_condition_id = next_condition_id
            ELSE outcome = Unchanged(Plain("cancel", conditions[id].owner, id,
                                           "cannot_cancel", "none"))

\* a Cancelled condition, whose owner's second cancel is refused, next to an
\* Active one that the stats count
OwnerCancelWitness ==
    \E id, other \in ConditionIds :
        /\ conditions[id].status = "Cancelled"
        /\ CancelOutcome(conditions[id].owner, id).call.result = "cannot_cancel"
        /\ conditions[other].status = "Active"
        /\ stats.active_conditions_count = 1

\* C9: a check of a valid condition whose trigger does not fire returns None,
\* calls no swap and changes nothing but that condition's last_check, which
\* becomes now (so a repeated check at the same time changes nothing more).
UntriggeredCheck ==
    \A id \in ConditionIds :
        LET price_result == get_price(config.oracle_config,
                                      conditions[id].source_asset, now)
            fire == should_execute(conditions[id], price_result.price_data.price)
            outcome == CheckOutcome(id)
        IN  (/\ ~config.paused
             /\ is_valid(conditions[id], now) = "ok"
             /\ price_result.success
             /\ ~Panics(price_result.o)
             /\ ~fire.v
             /\ ~Panics(fire.o))
                => /\ outcome.call.result = "ok"
                   /\ outcome.call.value = "None"
                   /\ ~outcome.call.swap.called
                   /\ outcome.conditions = [conditions EXCEPT ![id].last_check = now]
                   /\ outcome.executions = executions
                   /\ outcome.stats = stats
                   /\ outcome.user_conditions = user_conditions
                   /\ outcome.next_condition_id = next_condition_id

\* an Active condition that never executed and whose last_check is later than
\* its creation: a check that did not fire has recorded its time, and the next
\* one does not fire either
UntriggeredCheckWitness ==
    \E id \in ConditionIds :
        /\ conditions[id].status = "Active"
        /\ conditions[id].execution_count = 0
        /\ conditions[id].last_check > conditions[id].created_at
        /\ CheckOutcome(id).call.value = "None"

\* C10: a check that is triggered and whose swap succeeds returns Some, adds
\* 1 to the condition's execution_count, sets its last_check to now, leaves
\* its status or makes it Executed, appends exactly one record (of this
\* condition, this amount and this time) to its history, adds 1 to
\* total_conditions_executed and amount_in to total_volume_swapped, and takes
\* 1 from active_conditions_count exactly when the condition became Executed;
\* nothing else changes.
SuccessfulExecution ==
    \A id \in ConditionIds :
        LET c == conditions[id]
            price_result == get_price(config.oracle_config, c.source_asset, now)
            outcome == CheckOutcome(id)
            after == outcome.conditions[id]
        IN  (/\ ~config.paused
             /\ is_valid(c, now) = "ok"
             /\ price_result.success
             /\ should_execute(c, price_result.price_data.price).v
             /\ outcome.call.swap.success
             /\ outcome.call.result # "panic")
                => /\ outcome.call.result = "ok"
                   /\ outcome.call.value = "Some"
                   /\ after.status \in {c.status, "Executed"}
                   /\ after = [c EXCEPT !.execution_count = @ + 1,
                                        !.last_check = now,
                                        !.status = after.status]
                   /\ outcome.conditions = [conditions EXCEPT ![id] = after]
                   /\ DOMAIN outcome.executions = DOMAIN executions \cup {id}
                   /\ \A other \in DOMAIN executions \ {id} :
                          outcome.executions[other] = executions[other]
                   /\ Len(outcome.executions[id]) = Len(History(id)) + 1
                   /\ SubSeq(outcome.executions[id], 1, Len(History(id))) = History(id)
                   /\ outcome.executions[id][Len(History(id)) + 1].condition_id = id
                   /\ outcome.executions[id][Len(History(id)) + 1].amount_in
                          = c.amount_to_swap
                   /\ outcome.executions[id][Len(History(id)) + 1].executed_at = now
                   /\ outcome.stats =
                          [stats EXCEPT
                             !.total_conditions_executed = @ + 1,
                             !.total_volume_swapped = WAdd(@, c.amount_to_swap),
                             !.active_conditions_count =
                                 IF after.status = "Executed" /\ c.status # "Executed"
                                 THEN @ - 1 ELSE @]
                   /\ stats.active_conditions_count >= 1
                   /\ outcome.user_conditions = user_conditions
                   /\ outcome.next_condition_id = next_condition_id

\* a condition with max_executions = 2 that has executed once and is still
\* Active and counted, next to one that its execution made Executed
SuccessfulExecutionWitness ==
    \E id, other \in ConditionIds :
        /\ conditions[id].max_executions = 2
        /\ conditions[id].execution_count = 1
        /\ conditions[id].status = "Active"
        /\ Len(History(id)) = 1
        /\ conditions[other].status = "Executed"
        /\ Len(History(other)) = conditions[other].execution_count
        /\ stats.active_conditions_count = 1
        /\ stats.total_conditions_executed >= 2

\* C11: in every reachable state a condition is Executed exactly when its
\* max_executions is positive and its execution_count has reached it; so a
\* condition with max_executions = 0 is never Executed, whatever its count,
\* and is Active, Cancelled, Failed or Expired.
ExecutedIffLimitReached ==
    \A id \in ConditionIds :
        conditions[id].status = "Executed"
            <=> (/\ conditions[id].max_executions > 0
                 /\ conditions[id].execution_count >= conditions[id].max_executions)

\* a condition with max_executions = 0 that has executed twice, with its two
\* records, and is still Active
ExecutedIffLimitReachedWitness ==
    \E id \in ConditionIds :
        /\ conditions[id].max_executions = 0
        /\ conditions[id].execution_count = 2
        /\ Len(History(id)) = 2
        /\ conditions[id].status = "Active"

\* C12: cleanup_expired_conditions(limit), with n the number of conditions
\* that are Active and past their expires_at, makes exactly min(limit, n) of
\* them Expired and returns that number, takes that number from
\* active_conditions_count (which is at least that large) and changes nothing
\* else: no other condition, no history, no id.
CleanupRespectsLimit ==
    \A limit \in CleanupLimits \cup {0} :
        LET due == {id \in ConditionIds : /\ conditions[id].status = "Active"
                                          /\ now > conditions[id].expires_at}
            k == Min(limit, Cardinality(due))
            outcome == CleanupOutcome(limit)
            cleaned == {id \in ConditionIds : outcome.conditions[id] # conditions[id]}
        IN  /\ outcome.call.result = "ok"
            /\ outcome.call.value = k
            /\ DOMAIN outcome.conditions = ConditionIds
            /\ cleaned \subseteq due
            /\ Cardinality(cleaned) = k
            /\ \A id \in cleaned :
                   outcome.conditions[id] = [conditions[id] EXCEPT !.status = "Expired"]
            /\ stats.active_conditions_count >= k
            /\ outcome.stats = [stats EXCEPT !.active_conditions_count = @ - k]
            /\ outcome.executions = executions
            /\ outcome.user_conditions = user_conditions
            /\ outcome.next_condition_id = next_condition_id

\* of two conditions due together, a cleanup with limit 1 has made one
\* Expired and left the other Active, and a cleanup with limit 2 now returns 1
CleanupRespectsLimitWitness ==
    \E id, other \in ConditionIds :
        /\ conditions[id].status = "Expired"
        /\ conditions[other].status = "Active"
        /\ conditions[other].expires_at = conditions[id].expires_at
        /\ now > conditions[other].expires_at
        /\ CleanupOutcome(1).call.value = 1
        /\ CleanupOutcome(2).call.value = 1
        /\ CleanupOutcome(2).conditions[other].status = "Expired"

\* C13: no condition is expired early.  While now <= expires_at,
\* mark_as_expired leaves the condition as it is, no cleanup (whatever its
\* limit) changes it, and is_valid does not answer condition_expired for a
\* condition that is not Expired (it accepts an Active one that has executions
\* left); and a step that makes a condition Expired happens at a time
\* now > expires_at.
NoPrematureExpiry ==
    /\ [](\A id \in ConditionIds :
              now <= conditions[id].expires_at
                  => /\ mark_as_expired(conditions[id], now) = conditions[id]
                     /\ \A limit \in CleanupLimits :
                            CleanupOutcome(limit).conditions[id] = conditions[id]
                     /\ conditions[id].status # "Expired"
                            => is_valid(conditions[id], now) # "condition_expired"
                     /\ (/\ conditions[id].status = "Active"
                         /\ \/ conditions[id].max_executions = 0
                            \/ conditions[id].execution_count
                                   < conditions[id].max_executions)
                            => is_valid(conditions[id], now) = "ok")
    /\ [][\A id \in ConditionIds :
              (conditions[id].status # "Expired" /\ conditions'[id].status = "Expired")
                  => now > conditions[id].expires_at /\ now' = now]_vars

\* at the boundary now = expires_at a condition is still Active and accepted,
\* while a cleanup with room for it leaves it alone
NoPrematureExpiryWitness ==
    \E id \in ConditionIds :
        /\ now = conditions[id].expires_at
        /\ conditions[id].status = "Active"
        /\ is_valid(conditions[id], now) = "ok"
        /\ CleanupOutcome(2).call.value = 0
        /\ CleanupOutcome(2).conditions[id].status = "Active"

\* C14: once now > expires_at, a check of the condition (the contract not
\* being paused) fails with condition_expired whatever its status, Active
\* included: no swap is called and nothing changes, so no record is added and
\* the count does not grow; and every execution record of a condition has
\* executed_at <= its expires_at.
ExpiredCheckRejected ==
    \A id \in ConditionIds :
        /\ (now > conditions[id].expires_at /\ ~config.paused)
               => CheckOutcome(id)
                      = Unchanged(Plain("check", NoSymbol, id, "condition_expired", "none"))
        /\ \A i \in 1..Len(History(id)) :
               History(id)[i].executed_at <= conditions[id].expires_at

\* a condition that executed once in time, is still Active after its
\* expires_at, would fire again, and whose check is refused
ExpiredCheckRejectedWitness ==
    \E id \in ConditionIds :
        /\ now > conditions[id].expires_at
        /\ conditions[id].status = "Active"
        /\ conditions[id].execution_count = 1
        /\ Len(History(id)) = 1
        /\ should_execute(conditions[id],
                          get_price(config.oracle_config, conditions[id].source_asset,
                                    now).price_data.price).v
        /\ CheckOutcome(id).call.result = "condition_expired"

\* C15 (as the specification states it): a check is safe to retry.  In a
\* state that a check of the condition has just produced at this ledger time
\* (its last record was executed now, or its last_check, later than its
\* creation, is now), checking it again, with the same clock, oracle and
\* pools, changes neither its status, nor its execution_count, nor its
\* history, nor the stats.
CheckRetryIdempotent ==
    \A id \in ConditionIds :
        LET c == conditions[id]
            executed_now == /\ History(id) # <<>>
                            /\ History(id)[Len(History(id))].executed_at = now
            checked_now == c.last_check = now /\ (c.last_check > c.created_at \/ executed_now)
            retry == CheckOutcome(id)
        IN  (checked_now /\ retry.call.result # "panic")
                => /\ retry.conditions[id].status = c.status
                   /\ retry.conditions[id].execution_count = c.execution_count
                   /\ retry.executions = executions
                   /\ retry.stats = stats

\* C16 (as the specification states it): the condition stored by an accepted
\* create has owner = caller, status Active, execution_count 0, created_at =
\* last_check = now, the oracle's price as reference_price, and
\* min_amount_out = amount_to_swap * (10000 - max_slippage) / 10000, which is
\* at most amount_to_swap.
CreatedConditionFields ==
    \A caller \in Users, request \in WideRequests :
        LET outcome == CreateOutcome(caller, request)
            price_result == get_price(config.oracle_config, request.source_asset, now)
            expected == WDiv(WMul(request.amount_to_swap,
                                  W(10000 - request.max_slippage)), W(10000))
        IN  outcome.call.result = "ok"
                => /\ outcome.call.value \in DOMAIN outcome.conditions
                   /\ outcome.conditions[outcome.call.value].owner = caller
                   /\ outcome.conditions[outcome.call.value].status = "Active"
                   /\ outcome.conditions[outcome.call.value].execution_count = 0
                   /\ outcome.conditions[outcome.call.value].created_at = now
                   /\ outcome.conditions[outcome.call.value].last_check = now
                   /\ outcome.conditions[outcome.call.value].reference_price
                          = price_result.price_data.price
                   /\ outcome.conditions[outcome.call.value].min_amount_out = expected
                   /\ WLe(outcome.conditions[outcome.call.value].min_amount_out,
                          request.amount_to_swap)

\* C17: ids are handed out from 1 upwards, each once.  In every reachable
\* state the stored ids are exactly 1 .. next_condition_id - 1 and each
\* condition carries its own id; the counter never goes back; a step that
\* stores a new condition stores it under the counter's value, which is above
\* every id in use, and moves the counter on by one; and no step changes what
\* a create wrote into an existing condition (a create changes nothing of it
\* at all).
IdsStrictlyIncreasing ==
    /\ [](/\ next_condition_id >= 1
          /\ ConditionIds = 1..(next_condition_id - 1)
          /\ \A id \in ConditionIds : conditions[id].id = id)
    /\ [][/\ next_condition_id' >= next_condition_id
          /\ ConditionIds \subseteq DOMAIN conditions'
          /\ \A id \in ConditionIds :
                 conditions'[id] =
                     [conditions[id] EXCEPT
                        !.status = conditions'[id].status,
                        !.last_check = conditions'[id].last_check,
                        !.execution_count = conditions'[id].execution_count]
          /\ stats'.total_conditions_created # stats.total_conditions_created
                 => /\ DOMAIN conditions' = ConditionIds \cup {next_condition_id}
                    /\ next_condition_id \notin ConditionIds
                    /\ \A id \in ConditionIds : id < next_condition_id
                    /\ next_condition_id' = next_condition_id + 1
                    /\ stats'.total_conditions_created
                           = stats.total_conditions_created + 1
                    /\ \A id \in ConditionIds : conditions'[id] = conditions[id]
          /\ stats'.total_conditions_created = stats.total_conditions_created
                 => /\ DOMAIN conditions' = ConditionIds
                    /\ next_condition_id' = next_condition_id]_vars

\* two creates of different requests have stored conditions 1 and 2, the
\* first of which has since executed, and the counter stands at 3
IdsStrictlyIncreasingWitness ==
    /\ ConditionIds = {1, 2}
    /\ next_condition_id = 3
    /\ stats.total_conditions_created = 2
    /\ conditions[1].max_executions # conditions[2].max_executions
    /\ conditions[1].execution_count = 1
    /\ conditions[2].execution_count = 0

\* C18: while the contract is paused every create and every check fails with
\* contract_paused, before anything is validated, priced or swapped, and
\* changes nothing (conditions, histories, user lists, id counter, stats);
\* and the pause leaves nothing behind: in the state reached by unpausing,
\* under the configuration of initialize, a create of an admissible request
\* succeeds.
PausedRejects ==
    /\ [](config.paused
              => /\ \A caller \in Users, request \in Requests :
                        CreateOutcome(caller, request)
                            = Unchanged(Plain("create", caller, 0, "contract_paused", 0))
                 /\ \A id \in 1..MaxConditions :
                        CheckOutcome(id)
                            = Unchanged(Plain("check", NoSymbol, id,
                                              "contract_paused", "none")))
    /\ []((~config.paused /\ config.oracle_config = DefaultOracleConfig)
              => \A caller \in Users, request \in Requests :
                     CreateOutcome(caller, request).call.result = "ok")
    /\ [][(config.paused /\ ~config'.paused)
              => UNCHANGED <<conditions, user_conditions, executions,
                             next_condition_id, stats>>]_vars

\* the contract is paused while a condition that would fire is stored
PausedRejectsWitness ==
    /\ config.paused
    /\ \E id \in ConditionIds :
           /\ conditions[id].status = "Active"
           /\ is_valid(conditions[id], now) = "ok"
           /\ should_execute(conditions[id],
                             get_price(config.oracle_config, conditions[id].source_asset,
                                       now).price_data.price).v
           /\ CheckOutcome(id).call.result = "contract_paused"
    /\ \A request \in Requests :
           CreateOutcome("bob", request).call.result = "contract_paused"

\* C19: in every reachable state each user owns at most
\* max_conditions_per_user Active conditions.  A create by a user who owns
\* that many fails with condition_limit_exceeded and changes nothing; a create
\* by a user who owns fewer succeeds, however many conditions of that user
\* are no longer Active.
UserActiveLimit ==
    \A user \in Users :
        LET active == Cardinality({id \in ConditionIds :
                                      /\ conditions[id].owner = user
                                      /\ conditions[id].status = "Active"})
        IN  /\ active <= config.max_conditions_per_user
            /\ \A request \in LimitRequests :
                   IF active >= config.max_conditions_per_user
                   THEN CreateOutcome(user, request)
                            = Unchanged(Plain("create", user, 0,
                                              "condition_limit_exceeded", 0))
                   ELSE CreateOutcome(user, request).call.result = "ok"

\* alice owns 52 conditions, one Executed, one Cancelled and 50 Active: her
\* next create is refused, bob's is not
UserActiveLimitWitness ==
    /\ Cardinality(ConditionIds) = 52
    /\ \A id \in ConditionIds : conditions[id].owner = "alice"
    /\ \E id \in ConditionIds : conditions[id].status = "Executed"
    /\ \E id \in ConditionIds : conditions[id].status = "Cancelled"
    /\ Cardinality({id \in ConditionIds : conditions[id].status = "Active"})
           = config.max_conditions_per_user
    /\ \A request \in LimitRequests :
           /\ CreateOutcome("alice", request).call.result = "condition_limit_exceeded"
           /\ CreateOutcome("bob", request).call.result = "ok"

\* C20: in every reachable state active_conditions_count is the number of
\* stored conditions whose status is Active, and total_conditions_created is
\* the number of stored conditions.
ActiveCountExact ==
    /\ stats.active_conditions_count
           = Cardinality({id \in ConditionIds : conditions[id].status = "Active"})
    /\ stats.total_conditions_created = Cardinality(ConditionIds)

\* of two conditions counted at their creation one made its final execution
\* and the other was expired by a cleanup: neither is counted any more
ActiveCountExactWitness ==
    /\ stats.total_conditions_created = 2
    /\ stats.active_conditions_count = 0
    /\ \E id \in ConditionIds : conditions[id].status = "Executed"
    /\ \E id \in ConditionIds : conditions[id].status = "Expired"

\* C21: validate returns the error of the earliest violated check, in the order
\* amount, slippage, lifetime, distinct assets, condition-type parameters, and
\* "ok" exactly when no check is violated.
ValidateEarliestError ==
    eval.fn = "validate" =>
        LET r == eval.input
            lifetime == IF r.expires_at >= now THEN r.expires_at - now ELSE 0
            ct == r.condition_type
            checks ==
                << IF WLt(r.amount_to_swap, MIN_SWAP_AMOUNT) THEN "amount_too_small"
                   ELSE IF WGt(r.amount_to_swap, MAX_SWAP_AMOUNT) THEN "amount_too_large"
                   ELSE "ok",
                   IF r.max_slippage < MIN_SLIPPAGE_BASIS_POINTS THEN "slippage_too_low"
                   ELSE IF r.max_slippage > MAX_SLIPPAGE_BASIS_POINTS
                   THEN "slippage_too_high"
                   ELSE "ok",
                   IF lifetime < MIN_CONDITION_LIFETIME THEN "lifetime_too_short"
                   ELSE IF lifetime > MAX_CONDITION_LIFETIME THEN "lifetime_too_long"
                   ELSE "ok",
                   IF r.source_asset = r.destination_asset THEN "same_assets" ELSE "ok",
                   IF ct.kind \in {"PercentageIncrease", "PercentageDecrease"}
                   THEN IF ct.arg < MIN_PERCENTAGE_CHANGE \/ ct.arg > MAX_PERCENTAGE_CHANGE
                        THEN "invalid_percentage" ELSE "ok"
                   ELSE IF ct.arg # <<>> THEN "ok"
                   ELSE IF ct.kind = "TargetPrice" THEN "invalid_target_price"
                   ELSE "invalid_price_threshold" >>
            violated == {i \in 1..5 : checks[i] # "ok"}
        IN  /\ violated = {} <=> eval.output = "ok"
            /\ \A i \in violated :
                   (\A j \in violated : i <= j) => eval.output = checks[i]

\* a request that violates the amount, slippage and asset checks at once
ValidateEarliestErrorWitness ==
    /\ eval.fn = "validate"
    /\ WLt(eval.input.amount_to_swap, MIN_SWAP_AMOUNT)
    /\ eval.input.max_slippage > MAX_SLIPPAGE_BASIS_POINTS
    /\ eval.input.source_asset = eval.input.destination_asset
    /\ eval.input.condition_type.kind = "TargetPrice"
    /\ eval.input.condition_type.arg = <<>>
    /\ eval.output = "amount_too_small"

ShortLivedAccepted ==
    \A caller \in Users, request \in ShortLivedRequests :
        next_condition_id <= MaxWideConditions =>
            LET outcome == CreateOutcome(caller, request)
            IN  /\ outcome.call.result = "ok"
                /\ outcome.conditions[next_condition_id].status = "Active"
                /\ outcome.conditions[next_condition_id].expires_at = now + 1

\* C24, as the specification states it: for TargetPrice(120000), should_execute is
\* false at 119880, true at 119900 and 120100, and false at 120121.
TargetBandExamplesAsStated ==
    (/\ eval.fn = "should_execute"
     /\ eval.input.condition.condition_type.kind = "TargetPrice"
     /\ eval.input.condition.condition_type.arg = W(120000)) =>
        /\ eval.input.current_price = W(119880) => ~eval.output.v
        /\ eval.input.current_price = W(119900) => eval.output.v
        /\ eval.input.current_price = W(120100) => eval.output.v
        /\ eval.input.current_price = W(120121) => ~eval.output.v

\* C24, as the code has it: for TargetPrice(120000) the tolerance is 120 and the
\* band is 119880 .. 120120 with both ends inside: should_execute is false at
\* 119879, true at 119880, 119900, 120100 and 120120, and false at 120121, with no
\* overflow on the way.
TargetBandExamples ==
    (/\ eval.fn = "should_execute"
     /\ eval.input.condition.condition_type.kind = "TargetPrice"
     /\ eval.input.condition.condition_type.arg = W(120000)) =>
        /\ ~eval.output.o
        /\ eval.input.current_price = W(119879) => ~eval.output.v
        /\ eval.input.current_price = W(119880) => eval.output.v
        /\ eval.input.current_price = W(119900) => eval.output.v
        /\ eval.input.current_price = W(120100) => eval.output.v
        /\ eval.input.current_price = W(120120) => eval.output.v
        /\ eval.input.current_price = W(120121) => ~eval.output.v

\* the call at the lower end of the band, which fires
TargetBandExamplesWitness ==
    /\ eval.fn = "should_execute"
    /\ eval.input.condition.condition_type.kind = "TargetPrice"
    /\ eval.input.condition.condition_type.arg = W(120000)
    /\ eval.input.current_price = W(119880)
    /\ eval.output.v

\* C25: for PercentageIncrease(p), should_execute(price) is true exactly when
\* price >= reference_price + floor(reference_price * p / 100), the bound included;
\* with p = 10 and reference_price = 100000 it is false at 100000, 105000 and
\* 109999 and true at 110000 and 115000.
PercentageIncreaseRule ==
    (/\ eval.fn = "should_execute"
     /\ eval.input.condition.condition_type.kind = "PercentageIncrease") =>
        LET c == eval.input.condition
            p == c.condition_type.arg
            price == eval.input.current_price
            required == WAdd(c.reference_price,
                             WDiv(WMul(c.reference_price, W(p)), W(100)))
        IN  /\ ~eval.output.o
            /\ eval.output.v <=> WGe(price, required)
            /\ p = 10 /\ c.reference_price = W(100000) =>
                   /\ price \in {W(100000), W(105000), W(109999)} => ~eval.output.v
                   /\ price \in {W(110000), W(115000)} => eval.output.v

\* the call exactly at the required price, for a reference price that 100 does
\* not divide
PercentageIncreaseRuleWitness ==
    /\ eval.fn = "should_execute"
    /\ eval.input.condition.condition_type = [kind |-> "PercentageIncrease", arg |-> 10]
    /\ eval.input.condition.reference_price = W(120033)
    /\ eval.input.current_price = W(132036)
    /\ eval.output.v

\* C26: for PriceAbove(t), if should_execute(p) is true then should_execute(p') is
\* true for every p' > p, and should_execute(t) is false; for PriceBelow(t), if
\* should_execute(p) is true then it is true for every p' < p, and
\* should_execute(t) is false.
ThresholdMonotoneStrict ==
    (/\ eval.fn = "should_execute"
     /\ eval.input.condition.condition_type.kind \in {"PriceAbove", "PriceBelow"}) =>
        LET c == eval.input.condition
            t == c.condition_type.arg
            p == eval.input.current_price
            above == c.condition_type.kind = "PriceAbove"
        IN  /\ p = t => ~eval.output.v
            /\ ~should_execute(c, t).v
            /\ eval.output.v =>
                   \A q \in TriggerPrices :
                       (IF above THEN WGt(q, p) ELSE WLt(q, p)) => should_execute(c, q).v
            /\ eval.output.v <=> IF above THEN WGt(p, t) ELSE WLt(p, t)

\* the first price above a threshold fires PriceAbove, and the threshold does not
ThresholdMonotoneStrictWitness ==
    /\ eval.fn = "should_execute"
    /\ eval.input.condition.condition_type.kind = "PriceAbove"
    /\ eval.input.condition.condition_type.arg = W(120000)
    /\ eval.input.current_price = W(120001)
    /\ eval.output.v
    /\ ~should_execute(eval.input.condition, W(120000)).v

\* C27: for a single hop with nonzero reserves the call returns
\* amount_out = floor(amount_in_with_fee * reserve_out / (reserve_in + amount_in_with_fee))
\* with amount_in_with_fee = floor(amount_in * (10000 - fee_bp) / 10000); for
\* reserves (10000000, 1200000), fee 30 and amount_in 1000 these are 997 and 119.
SwapOutputFormula ==
    (/\ eval.fn = "calculate_swap_output"
     /\ eval.input.pool_info.reserve_a # <<>>
     /\ eval.input.pool_info.reserve_b # <<>>) =>
        LET pool_info == eval.input.pool_info
            amount_in == eval.input.amount_in
            reserve_in == IF eval.input.is_token_a_input
                          THEN pool_info.reserve_a ELSE pool_info.reserve_b
            reserve_out == IF eval.input.is_token_a_input
                           THEN pool_info.reserve_b ELSE pool_info.reserve_a
            amount_in_with_fee ==
                WDiv(WMul(amount_in, W(10000 - pool_info.fee_rate)), W(10000))
            amount_out ==
                WDiv(WMul(amount_in_with_fee, reserve_out),
                     WAdd(reserve_in, amount_in_with_fee))
        IN  /\ ~Panics(eval.output.o)
            /\ eval.output.error = "ok"
            /\ eval.output.amount_out = amount_out
            /\ (pool_info = ExamplePool /\ amount_in = W(1000)
                    /\ eval.input.is_token_a_input) =>
                   /\ amount_in_with_fee = W(997)
                   /\ eval.output.amount_out = W(119)

\* C28: for TargetPrice(t), should_execute(price) is true exactly when
\* |price - t| <= floor(t / 1000): the tolerance comes from the target, and a price
\* at either end of the band fires.
TargetBandRule ==
    (/\ eval.fn = "should_execute"
     /\ eval.input.condition.condition_type.kind = "TargetPrice") =>
        LET t == eval.input.condition.condition_type.arg
            price == eval.input.current_price
            distance == IF WGe(price, t) THEN WSub(price, t) ELSE WSub(t, price)
        IN  /\ ~eval.output.o
            /\ eval.output.v <=> WLe(distance, WDiv(t, W(1000)))

\* the call at the upper end of the band of the largest target
TargetBandRuleWitness ==
    /\ eval.fn = "should_execute"
    /\ eval.input.condition.condition_type.kind = "TargetPrice"
    /\ eval.input.condition.condition_type.arg = Dec(45, 0)
    /\ eval.input.current_price = Dec(45, 45000000)
    /\ eval.output.v

\* C29: for PercentageDecrease(p), should_execute(price) is true exactly when
\* price <= reference_price - floor(reference_price * p / 100), and it is false
\* for every price when floor(reference_price * p / 100) exceeds reference_price.
PercentageDecreaseRule ==
    (/\ eval.fn = "should_execute"
     /\ eval.input.condition.condition_type.kind = "PercentageDecrease") =>
        LET c == eval.input.condition
            price == eval.input.current_price
            required == WDiv(WMul(c.reference_price, W(c.condition_type.arg)), W(100))
        IN  /\ ~eval.output.o
            /\ WLe(required, c.reference_price) =>
                   (eval.output.v <=> WLe(price, WSub(c.reference_price, required)))
            /\ WGt(required, c.reference_price) => ~eval.output.v

\* C30: the quality gate passes price data exactly when its age (saturating) is at
\* most max_price_age, its confidence at least min_confidence, its price not 0 and
\* its source_count at least 2.  get_price returns the primary price exactly when
\* the primary query succeeds and its data pass the gate; otherwise it returns the
\* result of the fallback source if fallback_enabled, and else fails with no price
\* data, with the error of the primary query when the query itself failed.
PrimaryElseFallback ==
    LET Gate(d, cfg) ==
            /\ WLe(IF WGe(W(now), d.timestamp) THEN WSub(W(now), d.timestamp) ELSE <<>>,
                   W(cfg.max_price_age))
            /\ d.confidence >= cfg.min_confidence
            /\ d.price # <<>>
            /\ d.source_count >= 2
    IN  /\ eval.fn = "is_price_data_valid" =>
               (eval.output <=> Gate(eval.input.price_data, eval.input.oracle_config))
        /\ eval.fn = "get_price" =>
               LET cfg == eval.input.oracle_config
                   q == query_oracle_price(eval.input.asset_symbol, now)
                   fallback == get_fallback_price(eval.input.asset_symbol, now)
                   passes == q.ok /\ Gate(q.data, cfg)
                   out == eval.output
               IN  /\ ~out.o
                   /\ (out.success /\ out.price_data = q.data) <=> passes
                   /\ passes => out.error_message = NoSymbol
                   /\ ~passes /\ cfg.fallback_enabled =>
                          /\ out.success = fallback.success
                          /\ out.price_data = fallback.price_data
                          /\ out.error_message = fallback.error_message
                   /\ ~passes /\ ~cfg.fallback_enabled =>
                          /\ ~out.success
                          /\ out.price_data = NoPriceData
                          /\ out.error_message # NoSymbol
                          /\ ~q.ok => out.error_message = q.error

\* the primary price fails the gate on its confidence and the historical price
\* is returned
PrimaryElseFallbackWitness ==
    /\ eval.fn = "get_price"
    /\ eval.input.asset_symbol = "XLM"
    /\ eval.input.oracle_config.min_confidence = 86
    /\ eval.input.oracle_config.fallback_enabled
    /\ eval.output.success
    /\ eval.output.price_data.price = W(118000)

ConstantProductKept ==
    (/\ eval.fn = "calculate_swap_output"
     /\ eval.input.pool_info.reserve_a # <<>>
     /\ eval.input.pool_info.reserve_b # <<>>
     /\ ~Panics(eval.output.o)
     /\ eval.output.error = "ok") =>
        LET pool_info == eval.input.pool_info
            amount_in == eval.input.amount_in
            reserve_in == IF eval.input.is_token_a_input
                          THEN pool_info.reserve_a ELSE pool_info.reserve_b
            reserve_out == IF eval.input.is_token_a_input
                           THEN pool_info.reserve_b ELSE pool_info.reserve_a
            amount_in_with_fee ==
                WDiv(WMul(amount_in, W(10000 - pool_info.fee_rate)), W(10000))
            Larger(other) ==
                ~Panics(other.o) /\ other.error = "ok" =>
                    WGe(other.amount_out, eval.output.amount_out)
        IN  /\ WLt(eval.output.amount_out, reserve_out)
            /\ WGe(WMul(WAdd(reserve_in, amount_in_with_fee),
                        WSub(reserve_out, eval.output.amount_out)),
                   WMul(reserve_in, reserve_out))
            /\ \A larger \in SwapAmounts :
                   WGe(larger, amount_in) =>
                       Larger(calculate_swap_output(pool_info, larger,
                                                    eval.input.is_token_a_input))

\* C33: for every amount between MIN_SWAP_AMOUNT and MAX_SWAP_AMOUNT, every price
\* of the oracle and every simulated pool, no product of
\* calculate_min_amount_out or calculate_swap_output leaves the u64 range, and
\* neither does amount_in * 2 of the liquidity check.
MultiplicationsFit ==
    LET Admitted(amount) ==
            WGe(amount, MIN_SWAP_AMOUNT) /\ WLe(amount, MAX_SWAP_AMOUNT)
    IN  /\ (eval.fn = "calculate_min_amount_out" /\ Admitted(eval.input.amount_in)) =>
               ~eval.output.o
        /\ (/\ eval.fn = "calculate_swap_output"
            /\ Admitted(eval.input.amount_in)
            /\ eval.input.pool_info # ExamplePool) =>
               ~eval.output.o
        /\ \A amount \in AdmittedAmounts : ~Mul64(amount, W(2)).o

\* C34: at every clock value, however small, no unsigned subtraction on the way
\* to a price wraps or aborts; the timestamp of the historical fallback price,
\* now - 300, is one of them.
SubtractionsNeverWrap == eval.fn = "get_price" => ~eval.output.o

\* C35: under weak fairness of cleanup_expired_conditions with limit >= 1, a
\* condition that is Active after its expires_at eventually is Expired, or has
\* been cancelled first; the conditions scanned before it do not starve it.
ExpiredEventuallyCleaned ==
    \A id \in 1..MaxConditions :
        (/\ id \in DOMAIN conditions
         /\ conditions[id].status = "Active"
         /\ now > conditions[id].expires_at)
        ~> (/\ id \in DOMAIN conditions
            /\ conditions[id].status \in {"Expired", "Cancelled"})

\* the second condition was cleaned up behind a first one that cleanup passes over
ExpiredEventuallyCleanedWitness ==
    /\ {1, 2} \subseteq DOMAIN conditions
    /\ conditions[1].status \in {"Cancelled", "Executed"}
    /\ conditions[2].status = "Expired"

\* C36: in every reachable state the stored history of every condition is as
\* long as its execution_count (so a condition that never executed has none),
\* and every step leaves each history as it was or appends to its end.
HistoryMatchesCount ==
    /\ [](/\ DOMAIN executions \subseteq DOMAIN conditions
          /\ \A id \in ConditionIds :
                 /\ Len(History(id)) = conditions[id].execution_count
                 /\ conditions[id].execution_count = 0 => History(id) = <<>>)
    /\ [][\A id \in ConditionIds :
              LET old == History(id)
                  new == IF id \in DOMAIN executions' THEN executions'[id] ELSE <<>>
              IN  /\ Len(new) >= Len(old)
                  /\ SubSeq(new, 1, Len(old)) = old]_vars

\* one condition has executed twice and holds both records, another ended
\* without ever executing and holds none
HistoryMatchesCountWitness ==
    \E id \in ConditionIds, other \in ConditionIds :
        /\ conditions[id].execution_count = 2
        /\ Len(History(id)) = 2
        /\ History(id)[1].condition_id = id
        /\ conditions[other].status \in {"Cancelled", "Expired"}
        /\ conditions[other].execution_count = 0
        /\ History(other) = <<>>

\* C37: a create_swap_condition that does not return an id, whatever the reason,
\* leaves the id counter, the conditions, the users' lists, the histories and
\* the statistics as they were.
RejectedCreateKeepsState ==
    LET Kept(outcome) ==
            outcome.call.result # "ok" =>
                /\ outcome.next_condition_id = next_condition_id
                /\ outcome.conditions = conditions
                /\ outcome.user_conditions = user_conditions
                /\ outcome.executions = executions
                /\ outcome.stats = stats
    IN  \A caller \in Users :
            /\ \A request \in Requests : Kept(CreateOutcome(caller, request))
            /\ \A request \in WideRequests : Kept(CreateOutcome(caller, request))
            /\ \A request \in LiquidityRequests : Kept(CreateOutcome(caller, request))
            /\ \A request \in ShortLivedRequests : Kept(CreateOutcome(caller, request))

\* with a condition stored and the contract not paused, one request is refused by
\* validate, one for its amount and one for the liquidity
RejectedCreateKeepsStateWitness ==
    /\ next_condition_id > 1
    /\ ~config.paused
    /\ CreateOutcome("alice", WideReq("XLM", "XLM", 100000000, 500)).call.result
           = "same_assets"
    /\ CreateOutcome("alice", WideReq("XLM", "USDC", 99999999, 500)).call.result
           = "amount_below_minimum"
    /\ CreateOutcome("alice", WideReq("XLM", "BTC", 500000001, 500)).call.result
           = "insufficient_liquidity"

\* C38: a check of a Cancelled condition, paused or not and whatever the oracle
\* answers, calls no swap and stores nothing; no step changes the status, the
\* execution_count or the history of a Cancelled condition; and a condition with
\* max_executions = 1 is never both cancelled and executed: once it has executed
\* its owner's cancel is refused.
CancelFreezesCondition ==
    /\ [](\A id \in ConditionIds :
            /\ conditions[id].status = "Cancelled" =>
                   LET outcome == CheckOutcome(id)
                   IN  /\ outcome.call.result
                              \in {"contract_paused", "condition_cancelled", "condition_expired"}
                       /\ ~outcome.call.swap.called
                       /\ outcome.executions = executions
                       /\ outcome.conditions = conditions
            /\ conditions[id].max_executions = 1 =>
                   /\ ~(conditions[id].status = "Cancelled"
                            /\ (conditions[id].execution_count > 0 \/ History(id) # <<>>))
                   /\ conditions[id].execution_count > 0 =>
                          CancelOutcome(conditions[id].owner, id).call.result
                              = "cannot_cancel")
    /\ [][\A id \in ConditionIds :
              conditions[id].status = "Cancelled" =>
                  /\ conditions'[id].status = "Cancelled"
                  /\ conditions'[id].execution_count = conditions[id].execution_count
                  /\ id \in DOMAIN executions' <=> id \in DOMAIN executions
                  /\ id \in DOMAIN executions => executions'[id] = executions[id]]_vars

\* a condition cancelled after one of its two executions, whose trigger still
\* fires before expiry, next to a condition with max_executions = 1 that has
\* executed and can no longer be cancelled
CancelFreezesConditionWitness ==
    \E id \in ConditionIds, other \in ConditionIds :
        /\ conditions[id].status = "Cancelled"
        /\ conditions[id].execution_count = 1
        /\ Len(History(id)) = 1
        /\ now <= conditions[id].expires_at
        /\ ~config.paused
        /\ should_execute(conditions[id],
                          get_price(config.oracle_config, conditions[id].source_asset,
                                    now).price_data.price).v
        /\ CheckOutcome(id).call.result = "condition_cancelled"
        /\ conditions[other].max_executions = 1
        /\ conditions[other].execution_count = 1

\* C39: whenever a check of a stored condition reaches the swap (the condition
\* is valid, the price is there and the trigger fires), the quote is at least
\* the condition's min_amount_out, which is positive: the swap is refused
\* neither with slippage_exceeded nor with invalid_min_output.
AdmittedIsExecutable ==
    \A id \in ConditionIds :
        LET outcome == CheckOutcome(id)
        IN  outcome.call.swap.called =>
                /\ conditions[id].min_amount_out # <<>>
                /\ ~outcome.call.swap.below_min
                /\ outcome.call.result \notin {"slippage_exceeded", "invalid_min_output"}

\* C40: while the contract is paused the owner's cancel of an Active condition,
\* past its expiry or not, succeeds and makes it Cancelled; and a step that only
\* sets or clears the pause flag leaves the outcome of every cancel_condition
\* and of every cleanup_expired_conditions what it was.
PauseLeavesExitsOpen ==
    /\ [](config.paused =>
             \A id \in ConditionIds :
                 conditions[id].status = "Active" =>
                     LET outcome == CancelOutcome(conditions[id].owner, id)
                     IN  /\ outcome.call.result = "ok"
                         /\ outcome.conditions[id].status = "Cancelled")
    /\ [][(/\ config'.paused # config.paused
           /\ UNCHANGED <<now, conditions, user_conditions, executions,
                          next_condition_id, stats>>)
              => /\ \A caller \in Users, id \in ConditionIds \cup {next_condition_id} :
                        CancelOutcome(caller, id)' = CancelOutcome(caller, id)
                 /\ \A limit \in CleanupLimits \cup {0} :
                        CleanupOutcome(limit)' = CleanupOutcome(limit)]_vars

\* paused, with an Active condition past its expiry that its owner can still
\* cancel and that a cleanup would expire
PauseLeavesExitsOpenWitness ==
    \E id \in ConditionIds :
        /\ config.paused
        /\ conditions[id].status = "Active"
        /\ now > conditions[id].expires_at
        /\ CancelOutcome(conditions[id].owner, id).call.result = "ok"
        /\ CleanupOutcome(1).call.value = 1
        /\ CleanupOutcome(1).conditions[id].status = "Expired"

====
